---- MODULE Spec2Model ----
(***************************************************************************)
(* Model of tradleconf (@tradle/conf): the Conf class of src/src/conf.ts   *)
(* (constructor, destroy, invoke, invokeAndReturn, deploy) and the stack   *)
(* helpers of src/src/utils.ts (deleteStack, createStack, updateStack,     *)
(* listStackResources, listStacks, unwrapReturnValue).                     *)
(*                                                                         *)
(* Every "await" of the source is a point where the environment (the user  *)
(* at a prompt, the cloud provider, the local emulator) answers, so every  *)
(* handler is cut into one action per awaited answer.  The provider and    *)
(* the user are nondeterministic: each answer is drawn with \E.            *)
(***************************************************************************)
EXTENDS Integers, Sequences, FiniteSets, TLC

VARIABLES
    conf,       \* the Conf instance: its local / remote / stackName / project fields
    pc,         \* position of the running Conf operation
    log,        \* every prompt shown and provider call issued, in order
    outcome,    \* how the running operation ended: returned or threw
    buckets,    \* destroy: the bucket ids listStackBucketIds returned
    idx,        \* destroy: number of buckets whose destroyBucket was issued
    inflight,   \* destroy: buckets whose destroyBucket promise is not settled
    stackOp,    \* utils: position of the running deleteStack/createStack/updateStack
    stackErr,   \* utils: the error the stack operation threw
    waiter,     \* utils: the completion waiter the stack operation returned
    call,       \* invoke: the options of the running invoke call
    caller,     \* invoke: the method that called invoke
    response,   \* invoke: the answer of the remote compute endpoint
    envelope,   \* invoke: the value invoke returned
    retval,     \* the value the running operation returned, or the error it threw
    unwrapped,  \* the value unwrapReturnValue returned for invoke's envelope
    deployOpts, \* deploy: the options of the running deploy call
    items,      \* deploy: the keys of the assembled deploy item set
    pages,      \* provider: the pages of the listing, linked by tokens
    listOp,     \* utils: the running paginated listing and its position
    reqToken,   \* utils: the NextToken of the listing's request options
    sent,       \* provider: the token of every list call received
    acc,        \* utils: the items the listing has accumulated
    existing,   \* provider: the buckets that exist
    target,     \* utils: the bucket the running destroyBucket was called on
    tasks,      \* the titles of the running task list
    taskIdx,    \* the position of the task list: the task that is running
    client,     \* the client set the instance caches: 0 when none
    clientLog,  \* every client set constructed or used and every invalidation, in order
    nesting,    \* provider: the nested stacks each stack lists among its resources
    walker,     \* utils: the recursive enumeration that is running
    frontier,   \* utils: the stacks whose recursive call is pending
    fetched,    \* utils: the stacks whose template was fetched
    ctor,       \* normalizeError: the constructor that built the error exec threw
    request,    \* the operation called with an argument object, and that argument
    shell,      \* _invokeLocal: exit code, output file and stderr of the emulator run
    input,      \* the arguments of the helper function that was called
    output,     \* the values the helper function returned, call after call
    region,     \* utils: the region of the client a stack operation was given
    stackMsg,   \* utils: the message of the error the stack operation threw
    pending,    \* writeModels: the directories whose files are not yet written
    reading,    \* updateEnvironments: functions whose configuration read is in flight
    confs,      \* updateEnvironments: functions whose configuration has been read
    updating,   \* updateEnvironments: functions whose configuration update is in flight
    cwd,        \* the working directory of the process
    thread,     \* the local invocation that is running its synchronous part: 0 when none
    locals,     \* _invokeLocal: position, saved directory and temporary files of each call
    tmpCount,   \* tmp: number of temporary files created so far
    settings,   \* the instance's region, profile and stack id
    answers     \* init: what the user answered to the prompts

destroyVars == <<buckets, idx, inflight>>
stackVars   == <<stackOp, stackErr, waiter>>
invokeVars  == <<call, caller, response, envelope, retval, unwrapped, deployOpts, items>>
listVars    == <<pages, listOp, reqToken, sent, acc>>
bucketVars  == <<existing, target>>
taskVars    == <<tasks, taskIdx>>
clientVars  == <<client, clientLog>>
nestVars    == <<nesting, walker, frontier, fetched>>
helperVars  == <<input, output>>
waitVars    == <<region, stackMsg>>
fileVars    == <<pending>>
envVars     == <<reading, confs, updating>>
localVars   == <<cwd, thread, locals, tmpCount>>
initVars    == <<settings, answers>>
moreVars    == <<fileVars, envVars, localVars, initVars>>
otherVars   == <<shell, helperVars, waitVars, moreVars>>
execVars    == <<ctor, request, otherVars>>
restVars    == <<bucketVars, taskVars, clientVars, nestVars, execVars>>
opVars      == <<destroyVars, stackVars, invokeVars, listVars, execVars>>
vars == <<conf, pc, log, outcome, destroyVars, stackVars, invokeVars, listVars, restVars>>

----------------------------------------------------------------------------
(* Bounds of the model *)

\* longest bucket list the provider returns to destroy
MaxBuckets == 2
\* most transient conflicts the provider answers to one deleteStack
MaxConflicts == 3

----------------------------------------------------------------------------
(* Values *)

\* an option that is true, false or not given at all
Tri == {"true", "false", "undefined"}
Truthy(x) == x = "true"

\* project option: not given, a directory holding serverless.yml, or another path
Projects == {"", "valid", "invalid"}
isValidProjectPath(project) == project = "valid"

\* stack names: "" stands for an absent (falsy) stackName
StackNames == {"", "tdl-acme-ltd-dev"}

NodeFlagSets == {{}, {"inspect"}}

AllBuckets == <<"tdl-acme-ltd-dev-logsbucket", "tdl-acme-ltd-dev-objectsbucket",
                "tdl-acme-ltd-dev-privateconfbucket", "tdl-acme-ltd-dev-filebucket">>
BucketLists == {[i \in 1..n |-> AllBuckets[i]] : n \in 0..MaxBuckets}

\* answers of the provider to a mutating stack call
CONFLICT == "UPDATE_ROLLBACK_COMPLETE_CLEANUP_IN_PROGRESS"
ProviderErrors == {"ValidationError", "AccessDenied"}
DeleteResponses == {"ok", CONFLICT} \cup ProviderErrors

\* JavaScript values: envelopes, payloads, errors
NoValue   == [t |-> "none"]
Undefined == [t |-> "undefined"]
Null      == [t |-> "null"]
Num(n)    == [t |-> "num", n |-> n]
Str(s)    == [t |-> "str", s |-> s]
Obj(f)    == [t |-> "obj", f |-> f]
Err(name, message) == [t |-> "Error", name |-> name, message |-> message]

JSTruthy(v) ==
    CASE v.t \in {"none", "undefined", "null"} -> FALSE
      [] v.t = "num" -> v.n # 0
      [] v.t = "str" -> v.s # ""
      [] OTHER -> TRUE

HasKey(v, k) == v.t = "obj" /\ k \in DOMAIN v.f
Get(v, k) == IF HasKey(v, k) THEN v.f[k] ELSE Undefined

\* payloads of the remote function: JSON texts
PayloadTexts ==
    {"null",
     "{\"result\":1}",
     "{\"error\":{\"name\":\"NotFound\",\"message\":\"no such item\"}}",
     "{\"error\":{\"message\":\"partial\"},\"result\":1}",
     "{\"result\":{\"result\":0}}"}

\* JSON.parse on the payloads above
JSONParse(text) ==
    CASE text = "null" -> Null
      [] text = "{\"result\":1}" -> Obj([result |-> Num(1)])
      [] text = "{\"error\":{\"name\":\"NotFound\",\"message\":\"no such item\"}}" ->
           Obj([error |-> Obj([name |-> Str("NotFound"), message |-> Str("no such item")])])
      [] text = "{\"error\":{\"message\":\"partial\"},\"result\":1}" ->
           Obj([error |-> Obj([message |-> Str("partial")]), result |-> Num(1)])
      [] text = "{\"result\":{\"result\":0}}" ->
           Obj([result |-> Obj([result |-> Num(0)])])
      [] text = "{\"error\":{\"name\":\"TypeError\",\"message\":\"x is not a function\"}}" ->
           Obj([error |-> Obj([name |-> Str("TypeError"), message |-> Str("x is not a function")])])
      [] text = "{\"error\":{\"name\":\"InvalidInput\"}}" ->
           Obj([error |-> Obj([name |-> Str("InvalidInput")])])
      [] text = "{\"error\":{\"name\":\"Date\",\"message\":\"now\"}}" ->
           Obj([error |-> Obj([name |-> Str("Date"), message |-> Str("now")])])
      [] text = "{\"error\":{\"name\":\"Symbol\",\"message\":\"unique\"}}" ->
           Obj([error |-> Obj([name |-> Str("Symbol"), message |-> Str("unique")])])
      [] text = "{\"error\":\"boom\"}" -> Obj([error |-> Str("boom")])
      [] text = "{\"result\":{\"style\":\"s\",\"modelsPack\":{\"models\":[1],\"lenses\":[1]}}}" ->
           Obj([result |-> Obj([style |-> Str("s"),
                                modelsPack |-> Obj([models |-> Str("[1]"), lenses |-> Str("[1]")])])])

StatusCodes == {200, 299, 300, 500}
FunctionErrors == {"", "Unhandled"}
LambdaResponses ==
    [StatusCode : StatusCodes, Payload : PayloadTexts, FunctionError : FunctionErrors]
NoResponse == [StatusCode |-> 0, Payload |-> "", FunctionError |-> ""]

\* constants.ts: SAFE_REMOTE_COMMANDS (conf.ts 1618)
SAFE_REMOTE_COMMANDS == {"log", "tail", "update", "list-previous-versions", "load"}
Commands == {"load", "deploy"}

\* options of an invoke call; functionName "" stands for none given
InvokeOpts ==
    [functionName : {"", "cli", "setconf"}, noWarning : BOOLEAN, local : Tri, command : Commands]

\* conf.ts 101-107
DEPLOYABLES == {"bot", "style", "models", "modelsPack", "terms"}
\* options of a deploy call: every deployable key true, false or absent;
\* args is the number of positional arguments
DeployOpts ==
    [all : BOOLEAN, dryRun : BOOLEAN, args : {0, 1}, flags : [DEPLOYABLES -> Tri]]
NoDeployOpts ==
    [all |-> FALSE, dryRun |-> FALSE, args |-> 0, flags |-> [k \in DEPLOYABLES |-> "undefined"]]

Event(ev, arg, res) == [ev |-> ev, arg |-> arg, res |-> res]
NoOutcome == [kind |-> "none", err |-> ""]
Returned == [kind |-> "returned", err |-> ""]
Threw(e) == [kind |-> "threw", err |-> e]

Count(s, P(_)) == Cardinality({i \in DOMAIN s : P(s[i])})

ClientEvent(ev, id, op) == [ev |-> ev, id |-> id, op |-> op]

----------------------------------------------------------------------------
(* Strings given character by character, and getLongFunctionName: conf.ts 68-73 *)

\* longest stack name and longest short name that are followed
MaxNameLen == 2
Chars == {"a", "b", "-"}
Names == UNION {[1..n -> Chars] : n \in 1..MaxNameLen}
NoInput == [fn |-> "", stackName |-> <<>>, name |-> <<>>]

\* t occurs in s at the 0-based index i
OccursAt(s, t, i) ==
    /\ i + Len(t) <= Len(s)
    /\ \A k \in 1..Len(t) : s[i + k] = t[k]
\* String.prototype.lastIndexOf: the greatest index of an occurrence, or -1
lastIndexOf(s, t) ==
    LET I == {i \in 0..Len(s) : OccursAt(s, t, i)}
    IN IF I = {} THEN -1 ELSE CHOOSE i \in I : \A j \in I : j <= i

\* variant: the name is tested for the prefix
getLongFunctionName_StartsWith(stackName, functionName) ==
    IF OccursAt(functionName, stackName, 0) THEN functionName
    ELSE stackName \o <<"-">> \o functionName

\* conf.ts 68-73
getLongFunctionName(stackName, functionName) ==
    IF lastIndexOf(functionName, stackName) = 0 THEN functionName
    ELSE stackName \o <<"-">> \o functionName

----------------------------------------------------------------------------
(* Conf constructor, conf.ts 197-227 *)

ConfOpts == [local : BOOLEAN, remote : Tri, project : Projects,
             stackName : StackNames, nodeFlags : NodeFlagSets]

ConstructorThrows(opts) ==
    \/ opts.local /\ Truthy(opts.remote)
    \/ opts.local /\ opts.project = ""
    \/ opts.local /\ ~isValidProjectPath(opts.project)
    \/ Truthy(opts.remote) /\ opts.nodeFlags # {}

Constructor(opts) ==
    [local     |-> opts.local,
     remote    |-> Truthy(opts.remote) \/ opts.project = "",
     project   |-> opts.project,
     stackName |-> opts.stackName,
     nodeFlags |-> opts.nodeFlags]

Instances == {Constructor(opts) : opts \in {o \in ConfOpts : ~ConstructorThrows(o)}}

\* conf.ts 197-242: new Conf(opts)
construct(opts) ==
    /\ pc = "idle"
    /\ request = [op |-> "", tag |-> "", data |-> {}]
    /\ request' = [op |-> "new Conf", tag |-> "", data |-> opts]
    /\ IF ConstructorThrows(opts)
         THEN pc' = "done" /\ outcome' = Threw("InvalidInput") /\ UNCHANGED conf
         ELSE pc' = "idle" /\ conf' = Constructor(opts) /\ UNCHANGED outcome
    /\ UNCHANGED <<log, destroyVars, stackVars, invokeVars, listVars, bucketVars, taskVars,
                   clientVars, nestVars, ctor, otherVars>>

\* conf.ts 960-964
ensureStackNameKnownThrows == conf.remote /\ conf.stackName = ""

\* conf.ts 570-578
ensureRemoteThrows(strict) == conf.local \/ (strict /\ ~conf.remote)

\* utils.confirmOrAbort: ask, and abort the sequence when the user declines
confirmOrAbort(answer) == IF answer THEN "ok" ELSE "UserAborted"

----------------------------------------------------------------------------
(* utils.deleteStack / createStack / updateStack, utils.ts 284-333 *)

Conflicts == Count(log, LAMBDA e : e.ev = "deleteStack" /\ e.res = CONFLICT)

\* variant: a conflict is retried at once, without the delay
deleteStack_NoBackoff(resp) ==
    /\ stackOp = "deleteStack"
    /\ resp = CONFLICT => Conflicts < MaxConflicts
    /\ log' = Append(log, Event("deleteStack", conf.stackName, resp))
    /\ IF resp = "ok"
         THEN stackOp' = "returned" /\ waiter' = "stackDeleteComplete" /\ stackErr' = ""
         ELSE IF resp = CONFLICT
           THEN stackOp' = "deleteStack" /\ UNCHANGED <<waiter, stackErr>>
           ELSE stackOp' = "threw" /\ stackErr' = resp /\ UNCHANGED waiter
    /\ UNCHANGED <<restVars, invokeVars, listVars, conf, pc, outcome, buckets, idx, inflight>>

\* variant: every error of the delete call is retried after the delay
deleteStack_RetryAll(resp) ==
    /\ stackOp = "deleteStack"
    /\ resp # "ok" => Len(log) < 2 * MaxConflicts
    /\ log' = Append(log, Event("deleteStack", conf.stackName, resp))
    /\ IF resp = "ok"
         THEN stackOp' = "returned" /\ waiter' = "stackDeleteComplete" /\ stackErr' = ""
         ELSE stackOp' = "backoff" /\ UNCHANGED <<waiter, stackErr>>
    /\ UNCHANGED <<restVars, invokeVars, listVars, conf, pc, outcome, buckets, idx, inflight>>

\* variant: the loop gives up at the second conflict and throws it
deleteStack_MaxAttempts(resp) ==
    /\ stackOp = "deleteStack"
    /\ resp = CONFLICT => Conflicts < MaxConflicts
    /\ log' = Append(log, Event("deleteStack", conf.stackName, resp))
    /\ IF resp = "ok"
         THEN stackOp' = "returned" /\ waiter' = "stackDeleteComplete" /\ stackErr' = ""
         ELSE IF resp = CONFLICT /\ Conflicts < 1
           THEN stackOp' = "backoff" /\ UNCHANGED <<waiter, stackErr>>
           ELSE stackOp' = "threw" /\ stackErr' = resp /\ UNCHANGED waiter
    /\ UNCHANGED <<restVars, invokeVars, listVars, conf, pc, outcome, buckets, idx, inflight>>

\* utils.ts 284-298: one pass of the while (true) loop, then the return
deleteStack(resp) ==
    /\ stackOp = "deleteStack"
    /\ resp = CONFLICT => Conflicts < MaxConflicts
    /\ log' = Append(log, Event("deleteStack", conf.stackName, resp))
    /\ IF resp = "ok"
         THEN stackOp' = "returned" /\ waiter' = "stackDeleteComplete" /\ stackErr' = ""
         ELSE IF resp = CONFLICT
           THEN stackOp' = "backoff" /\ UNCHANGED <<waiter, stackErr>>
           ELSE stackOp' = "threw" /\ stackErr' = resp /\ UNCHANGED waiter
    /\ UNCHANGED <<restVars, invokeVars, listVars, conf, pc, outcome, buckets, idx, inflight>>

\* utils.ts 294-295: back off, try again
deleteStackBackoff ==
    /\ stackOp = "backoff"
    /\ log' = Append(log, Event("wait", "5000", "ok"))
    /\ stackOp' = "deleteStack"
    /\ UNCHANGED <<restVars, invokeVars, listVars, conf, pc, outcome, buckets, idx, inflight, stackErr, waiter>>

\* variant: createStack waits for completion itself before it returns
createStack_Blocking(resp) ==
    /\ stackOp = "createStack"
    /\ log' = Append(log, Event("createStack", conf.stackName, resp))
    /\ IF resp = "ok"
         THEN stackOp' = "awaiting" /\ waiter' = "stackCreateComplete" /\ stackErr' = ""
         ELSE stackOp' = "threw" /\ stackErr' = resp /\ UNCHANGED waiter
    /\ UNCHANGED <<restVars, invokeVars, listVars, conf, pc, outcome, buckets, idx, inflight>>

\* utils.ts 319-325
createStack(resp) ==
    /\ stackOp = "createStack"
    /\ log' = Append(log, Event("createStack", conf.stackName, resp))
    /\ IF resp = "ok"
         THEN stackOp' = "returned" /\ waiter' = "stackCreateComplete" /\ stackErr' = ""
         ELSE stackOp' = "threw" /\ stackErr' = resp /\ UNCHANGED waiter
    /\ UNCHANGED <<restVars, invokeVars, listVars, conf, pc, outcome, buckets, idx, inflight>>

\* utils.ts 327-333
updateStack(resp) ==
    /\ stackOp = "updateStack"
    /\ log' = Append(log, Event("updateStack", conf.stackName, resp))
    /\ IF resp = "ok"
         THEN stackOp' = "returned" /\ waiter' = "stackUpdateComplete" /\ stackErr' = ""
         ELSE stackOp' = "threw" /\ stackErr' = resp /\ UNCHANGED waiter
    /\ UNCHANGED <<restVars, invokeVars, listVars, conf, pc, outcome, buckets, idx, inflight>>

\* the caller invokes the returned callable: utils.ts 299-300, 321-322, 329-330
invokeWaiter ==
    /\ stackOp = "returned"
    /\ pc = "idle"
    /\ log' = Append(log, Event("wait", "5000", "ok"))
    /\ stackOp' = "awaiting"
    /\ UNCHANGED <<restVars, invokeVars, listVars, conf, pc, outcome, buckets, idx, inflight, stackErr, waiter>>

\* the regions a client is configured with
Regions == {"us-east-1", "eu-west-2"}

\* utils.ts 593-595
getConsoleLinkForStacksInRegion(rgn, status) ==
    "https://" \o rgn \o ".console.aws.amazon.com/cloudformation/home?region="
       \o rgn \o "#/stacks?filter=" \o status

\* variant: the error of the provider's waiter is thrown as it is
waitFor_Rethrow(ok) ==
    /\ stackOp = "awaiting"
    /\ log' = Append(log, Event(waiter, conf.stackName, IF ok THEN "ok" ELSE "failed"))
    /\ IF ok
         THEN stackOp' = "waited" /\ UNCHANGED <<stackErr, stackMsg>>
         ELSE /\ stackOp' = "threw"
              /\ stackErr' = "ResourceNotReady"
              /\ stackMsg' = "Resource is not in the state " \o waiter
    /\ UNCHANGED <<bucketVars, taskVars, clientVars, nestVars, ctor, request, shell, helperVars, moreVars,
                   region, invokeVars, listVars, conf, pc, outcome, buckets, idx, inflight, waiter>>

\* utils.ts 390-402, reached through awaitStackCreate/Delete/Update (378-388)
waitFor(ok) ==
    /\ stackOp = "awaiting"
    /\ log' = Append(log, Event(waiter, conf.stackName, IF ok THEN "ok" ELSE "failed"))
    /\ IF ok
         THEN stackOp' = "waited" /\ UNCHANGED <<stackErr, stackMsg>>
         ELSE /\ stackOp' = "threw"
              /\ stackErr' = "ServerError"
              /\ stackMsg' = "operation may have failed. Check your stacks here: "
                                \o getConsoleLinkForStacksInRegion(region, "failed")
    /\ UNCHANGED <<bucketVars, taskVars, clientVars, nestVars, ctor, request, shell, helperVars, moreVars,
                   region, invokeVars, listVars, conf, pc, outcome, buckets, idx, inflight, waiter>>

\* a caller starts one of the three mutating stack operations
callStackOp(op) ==
    /\ stackOp = "idle"
    /\ pc = "idle"
    /\ stackOp' = op
    /\ region' \in Regions
    /\ UNCHANGED <<bucketVars, taskVars, clientVars, nestVars, ctor, request, shell, helperVars, moreVars,
                   stackMsg, invokeVars, listVars, conf, pc, log, outcome, buckets, idx, inflight,
                   stackErr, waiter>>

----------------------------------------------------------------------------
(* Conf.destroy, conf.ts 580-611 *)

\* conf.ts 581-584: the two guards, then the first prompt is shown
destroyStart ==
    /\ pc = "idle"
    /\ stackOp = "idle"
    /\ IF ensureStackNameKnownThrows \/ ensureRemoteThrows(TRUE)
         THEN pc' = "done" /\ outcome' = Threw("InvalidInput")
         ELSE pc' = "confirmDestroy" /\ UNCHANGED outcome
    /\ UNCHANGED <<restVars, invokeVars, listVars, conf, log, buckets, idx, inflight, stackOp, stackErr, waiter>>

\* conf.ts 584: DESTROY REMOTE MYCLOUD ...?
destroyConfirmDestroy(answer) ==
    /\ pc = "confirmDestroy"
    /\ log' = Append(log, Event("confirm", "destroy", confirmOrAbort(answer)))
    /\ IF confirmOrAbort(answer) = "ok"
         THEN pc' = "confirmMurder" /\ UNCHANGED outcome
         ELSE pc' = "done" /\ outcome' = Threw("UserAborted")
    /\ UNCHANGED <<restVars, invokeVars, listVars, conf, buckets, idx, inflight, stackOp, stackErr, waiter>>

\* conf.ts 585: Are you REALLY REALLY sure ...?
destroyConfirmMurder(answer) ==
    /\ pc = "confirmMurder"
    /\ log' = Append(log, Event("confirm", "murder", confirmOrAbort(answer)))
    /\ IF confirmOrAbort(answer) = "ok"
         THEN pc' = "listBuckets" /\ UNCHANGED outcome
         ELSE pc' = "done" /\ outcome' = Threw("UserAborted")
    /\ UNCHANGED <<restVars, invokeVars, listVars, conf, buckets, idx, inflight, stackOp, stackErr, waiter>>

\* conf.ts 586-587: the provider lists the stack's buckets, or fails
destroyListBuckets(ok, list) ==
    /\ pc = "listBuckets"
    /\ log' = Append(log, Event("listStackBucketIds", conf.stackName,
                                 IF ok THEN "ok" ELSE "failed"))
    /\ IF ok
         THEN pc' = "confirmBuckets" /\ buckets' = list /\ UNCHANGED outcome
         ELSE pc' = "done" /\ outcome' = Threw("ProviderError") /\ UNCHANGED buckets
    /\ UNCHANGED <<restVars, invokeVars, listVars, conf, idx, inflight, stackOp, stackErr, waiter>>

\* variant: the answer to 'Delete these buckets?' is not acted upon
destroyConfirmBuckets_Ignored(answer) ==
    /\ pc = "confirmBuckets"
    /\ log' = Append(log, Event("confirm", "buckets", confirmOrAbort(answer)))
    /\ pc' = "bucketLoop"
    /\ UNCHANGED <<restVars, invokeVars, listVars, conf, outcome, buckets, idx, inflight, stackOp, stackErr, waiter>>

\* conf.ts 588: Delete these buckets?
destroyConfirmBuckets(answer) ==
    /\ pc = "confirmBuckets"
    /\ log' = Append(log, Event("confirm", "buckets", confirmOrAbort(answer)))
    /\ IF confirmOrAbort(answer) = "ok"
         THEN pc' = "bucketLoop" /\ UNCHANGED outcome
         ELSE pc' = "done" /\ outcome' = Threw("UserAborted")
    /\ UNCHANGED <<restVars, invokeVars, listVars, conf, buckets, idx, inflight, stackOp, stackErr, waiter>>

\* variant: destroyBucket is started and not awaited (conf.ts 1476-1479)
destroyBucketLoop_NotAwaited ==
    /\ pc = "bucketLoop"
    /\ IF idx < Len(buckets)
         THEN /\ log' = Append(log, Event("destroyBucket", buckets[idx + 1], "issued"))
              /\ inflight' = inflight \cup {buckets[idx + 1]}
              /\ idx' = idx + 1
              /\ pc' = "bucketLoop"
         ELSE /\ pc' = "disableTerminationProtection"
              /\ UNCHANGED <<log, inflight, idx>>
    /\ UNCHANGED <<restVars, invokeVars, listVars, conf, outcome, buckets, stackOp, stackErr, waiter>>

\* conf.ts 589-592: the for loop issues destroyBucket for the next bucket and
\* awaits it; after the last bucket the Listr task list starts (595)
destroyBucketLoop ==
    /\ pc = "bucketLoop"
    /\ IF idx < Len(buckets)
         THEN /\ log' = Append(log, Event("destroyBucket", buckets[idx + 1], "issued"))
              /\ inflight' = inflight \cup {buckets[idx + 1]}
              /\ idx' = idx + 1
              /\ pc' = "awaitBucket"
         ELSE /\ pc' = "disableTerminationProtection"
              /\ UNCHANGED <<log, inflight, idx>>
    /\ UNCHANGED <<restVars, invokeVars, listVars, conf, outcome, buckets, stackOp, stackErr, waiter>>

\* the promise of an issued destroyBucket settles (utils.ts 242-252); the
\* loop of destroy resumes when it is the one it awaits (conf.ts 591)
destroyBucketSettled(b, ok) ==
    /\ b \in inflight
    /\ pc # "done"
    /\ inflight' = inflight \ {b}
    /\ log' = Append(log, Event("destroyBucket", b, IF ok THEN "done" ELSE "failed"))
    /\ IF pc = "awaitBucket"
         THEN IF ok
                THEN pc' = "bucketLoop" /\ UNCHANGED outcome
                ELSE pc' = "done" /\ outcome' = Threw("ProviderError")
         ELSE UNCHANGED <<pc, outcome>>
    /\ UNCHANGED <<restVars, invokeVars, listVars, conf, buckets, idx, stackOp, stackErr, waiter>>

\* conf.ts 596-601: task 'disabling termination protection'
destroyDisableTerminationProtection(ok) ==
    /\ pc = "disableTerminationProtection"
    /\ log' = Append(log, Event("disableStackTerminationProtection", conf.stackName,
                                 IF ok THEN "ok" ELSE "failed"))
    /\ IF ok
         THEN pc' = "deleteStack" /\ stackOp' = "deleteStack" /\ UNCHANGED outcome
         ELSE pc' = "done" /\ outcome' = Threw("ProviderError") /\ UNCHANGED stackOp
    /\ UNCHANGED <<restVars, invokeVars, listVars, conf, buckets, idx, inflight, stackErr, waiter>>

\* conf.ts 605-606: task 'deleting stack' resumes when utils.deleteStack ends
destroyDeleteStackEnded ==
    /\ pc = "deleteStack"
    /\ stackOp \in {"returned", "threw"}
    /\ IF stackOp = "returned"
         THEN /\ log' = Append(log, Event("wait", "5000", "ok"))
              /\ pc' = "waitForStackDelete"
              /\ UNCHANGED outcome
         ELSE /\ pc' = "done"
              /\ outcome' = Threw(stackErr)
              /\ UNCHANGED log
    /\ UNCHANGED <<restVars, invokeVars, listVars, conf, buckets, idx, inflight, stackOp, stackErr, waiter>>

\* conf.ts 607 and 531-535: waitForStackDelete, then the task list and destroy return
destroyWaitForStackDelete(ok) ==
    /\ pc = "waitForStackDelete"
    /\ log' = Append(log, Event("stackDeleteComplete", conf.stackName,
                                 IF ok THEN "ok" ELSE "failed"))
    /\ pc' = "done"
    /\ outcome' = IF ok THEN Returned ELSE Threw("ServerError")
    /\ UNCHANGED <<restVars, invokeVars, listVars, conf, buckets, idx, inflight, stackOp, stackErr, waiter>>

----------------------------------------------------------------------------
(* utils.unwrapReturnValue and normalizeError, utils.ts 662-699 *)

\* names that are constructors of errors on the global object
GlobalCtors == {"Error", "TypeError", "RangeError"}
\* other constructors on the global object, and properties of it that new rejects
GlobalOtherCtors == {"Date"}
GlobalNonCtors == {"Symbol"}
\* utils.ts 666: name in global
InGlobal(name) ==
    name.t = "str" /\ name.s \in GlobalCtors \cup GlobalOtherCtors \cup GlobalNonCtors

\* utils.ts 666-675: the constructor that builds the normalized value; "" when
\* err is an Error already and is returned as it is
normalizeErrorCtor(err) ==
    IF err.t = "Error" THEN ""
    ELSE LET name == Get(err, "name")
         IN IF JSTruthy(name) /\ InGlobal(name) /\ name.s \notin GlobalNonCtors
              THEN name.s
              ELSE "Error"

\* utils.ts 662-681
normalizeError(err) ==
    IF err.t = "Error" THEN err
    ELSE LET name == Get(err, "name")
             message == IF HasKey(err, "message") THEN Get(err, "message")
                        ELSE Str("unspecified")
             msg == IF message.t = "str" THEN message.s ELSE "unspecified"
         IN IF normalizeErrorCtor(err) \in GlobalOtherCtors
              THEN [t |-> name.s, name |-> name.s,
                    message |-> IF HasKey(err, "message") THEN msg ELSE ""]
              ELSE IF name.t = "str" /\ name.s \in GlobalCtors
                THEN Err(name.s, IF HasKey(err, "message") THEN msg ELSE name.s)
                ELSE Err(IF name.t = "str" THEN name.s ELSE "Error", msg)

\* utils.ts 683-699
RECURSIVE unwrapReturnValue(_)
unwrapReturnValue(ret) ==
    LET error == Get(ret, "error")
        result == Get(ret, "result")
    IN IF JSTruthy(error)
         THEN Obj([k \in DOMAIN ret.f |->
                     IF k = "error" THEN normalizeError(error) ELSE ret.f[k]])
         ELSE IF JSTruthy(result)
                 /\ (JSTruthy(Get(result, "error")) \/ JSTruthy(Get(result, "result")))
                THEN unwrapReturnValue(result)
                ELSE ret

\* deepest nesting of the envelopes unwrapReturnValue is called on
MaxNest == 3
\* values that are no envelope: falsy ones and truthy ones
LeafValues == {Num(0), Num(1), Str(""), Str("x"), Null}
\* serialized errors a remote command answers with
ErrorValues == {Obj([name |-> Str("InvalidInput")]), Str("boom")}
\* the envelopes around the values of S
Wrap(S) ==
    {Obj([result |-> v]) : v \in S}
      \cup {Obj([error |-> e]) : e \in ErrorValues}
      \cup {Obj([error |-> e, result |-> v]) : e \in ErrorValues \cup {Null}, v \in S}
RECURSIVE NestedValues(_)
NestedValues(n) == IF n = 0 THEN LeafValues ELSE LeafValues \cup Wrap(NestedValues(n - 1))

\* utils.ts 683-699: unwrapReturnValue is called, and called again on what it returned
unwrap(ret) ==
    /\ pc = "idle"
    /\ request' = [op |-> "unwrapReturnValue", tag |-> "", data |-> ret]
    /\ output' = <<unwrapReturnValue(ret), unwrapReturnValue(unwrapReturnValue(ret))>>
    /\ pc' = "done"
    /\ outcome' = Returned
    /\ UNCHANGED <<conf, log, destroyVars, stackVars, invokeVars, listVars, bucketVars,
                   taskVars, clientVars, nestVars, ctor, shell, input, waitVars, moreVars>>

----------------------------------------------------------------------------
(* Conf.invoke, invokeAndReturn, _invoke, _invokeLocal: conf.ts 259-278, 966-1025 *)

\* utils.ts 654
isSafeRemoteCommand(commandName) == commandName \in SAFE_REMOTE_COMMANDS

\* conf.ts 984: the response is a failure
IsFailure_Above300(resp) == resp.FunctionError # "" \/ resp.StatusCode > 300
IsFailure(resp) == resp.FunctionError # "" \/ resp.StatusCode >= 300

\* conf.ts 266-271: the promise of _invoke / _invokeLocal settled, invoke returns
\* the envelope to its caller
invokeSettles(env) ==
    /\ envelope' = env
    /\ IF caller = "invoke"
         THEN pc' = "done" /\ outcome' = Returned /\ retval' = env
         ELSE pc' = "invokeReturned" /\ UNCHANGED <<outcome, retval>>

\* conf.ts 972-982: _ensureStackNameKnown, then the endpoint is called
invokeIssue(shown) ==
    IF ensureStackNameKnownThrows
      THEN /\ log' = shown
           /\ invokeSettles(Obj([error |-> Err("InvalidInput", "are you sure you're in the right directory?")]))
      ELSE IF call.functionName = ""
        THEN /\ log' = shown
             /\ invokeSettles(Obj([error |-> Err("TypeError", "Cannot read property 'lastIndexOf' of undefined")]))
        ELSE /\ log' = Append(shown, Event("lambda.invoke", call.functionName, "issued"))
             /\ pc' = "lambda"
             /\ UNCHANGED <<envelope, outcome, retval>>

\* conf.ts 259-261: invoke is called (by a user of Conf, or by invokeAndReturn, 275)
invokeCall(opts, who) ==
    /\ pc = "idle"
    /\ call' = opts
    /\ caller' = who
    /\ pc' = IF opts.functionName = "" THEN "promptFn" ELSE "dispatch"
    /\ UNCHANGED <<conf, log, outcome, restVars, destroyVars, stackVars, listVars,
                   response, envelope, retval, unwrapped, deployOpts, items>>

\* conf.ts 261 and 662-667: the prompt lists the stack's functions (getFunctions);
\* it is awaited outside the try block, and its answer is not put into opts
invokePromptFn(ok) ==
    /\ pc = "promptFn"
    /\ ok => conf.stackName # ""
    /\ log' = Append(log, Event("promptFn", "which function?", IF ok THEN "ok" ELSE "failed"))
    /\ IF ok
         THEN pc' = "dispatch" /\ UNCHANGED <<outcome, retval>>
         ELSE LET e == IF ensureStackNameKnownThrows THEN "InvalidInput" ELSE "ProviderError"
              IN pc' = "done" /\ outcome' = Threw(e) /\ retval' = Err(e, "")
    /\ UNCHANGED <<conf, restVars, destroyVars, stackVars, listVars,
                   call, caller, response, envelope, unwrapped, deployOpts, items>>

\* variant: the per-call local option is not looked at
invokeDispatch_InstanceOnly ==
    /\ pc = "dispatch"
    /\ IF conf.local
         THEN pc' = "invokeLocal" /\ UNCHANGED <<log, envelope, outcome, retval>>
         ELSE IF ~(conf.remote \/ call.noWarning)
           THEN pc' = "confirmRemote" /\ UNCHANGED <<log, envelope, outcome, retval>>
           ELSE invokeIssue(log)
    /\ UNCHANGED <<conf, restVars, destroyVars, stackVars, listVars,
                   call, caller, response, unwrapped, deployOpts, items>>

\* conf.ts 260, 265 and 966-970: the target is chosen; a remote call that was
\* neither pre-approved nor made by an instance known to be remote asks first
invokeDispatch ==
    /\ pc = "dispatch"
    /\ LET local == IF call.local = "undefined" THEN conf.local ELSE Truthy(call.local)
       IN IF local
            THEN pc' = "invokeLocal" /\ UNCHANGED <<log, envelope, outcome, retval>>
            ELSE IF ~(conf.remote \/ call.noWarning)
              THEN pc' = "confirmRemote" /\ UNCHANGED <<log, envelope, outcome, retval>>
              ELSE invokeIssue(log)
    /\ UNCHANGED <<conf, restVars, destroyVars, stackVars, listVars,
                   call, caller, response, unwrapped, deployOpts, items>>

\* variant: the call proceeds whatever the user answered
invokeConfirmRemote_Ignored(answer) ==
    /\ pc = "confirmRemote"
    /\ invokeIssue(Append(log, Event("confirm", "remote", confirmOrAbort(answer))))
    /\ UNCHANGED <<conf, restVars, destroyVars, stackVars, listVars,
                   call, caller, response, unwrapped, deployOpts, items>>

\* conf.ts 968-970: Targeting REMOTE deployment. Continue?
invokeConfirmRemote(answer) ==
    /\ pc = "confirmRemote"
    /\ LET shown == Append(log, Event("confirm", "remote", confirmOrAbort(answer)))
       IN IF confirmOrAbort(answer) = "ok"
            THEN invokeIssue(shown)
            ELSE log' = shown /\ invokeSettles(Obj([error |-> Err("UserAborted", "")]))
    /\ UNCHANGED <<conf, restVars, destroyVars, stackVars, listVars,
                   call, caller, response, unwrapped, deployOpts, items>>

\* conf.ts 974-989: the endpoint answers
invokeLambdaResponds(resp) ==
    /\ pc = "lambda"
    /\ response' = resp
    /\ log' = Append(log, Event("lambda.invoke", call.functionName, "responded"))
    /\ IF IsFailure(resp)
         THEN invokeSettles(Obj([error |->
                  Err("Error", IF resp.Payload # "" THEN resp.Payload ELSE resp.FunctionError)]))
         ELSE invokeSettles(Obj([result |-> JSONParse(resp.Payload)]))
    /\ UNCHANGED <<conf, restVars, destroyVars, stackVars, listVars,
                   call, caller, unwrapped, deployOpts, items>>

\* conf.ts 978-982: the call to the endpoint is rejected (no response)
invokeLambdaRejects ==
    /\ pc = "lambda"
    /\ log' = Append(log, Event("lambda.invoke", call.functionName, "rejected"))
    /\ invokeSettles(Obj([error |-> Err("NetworkingError", "")]))
    /\ UNCHANGED <<conf, restVars, destroyVars, stackVars, listVars,
                   call, caller, response, unwrapped, deployOpts, items>>

NoShell == [code |-> -1, res |-> "", stderr |-> ""]

\* conf.ts 992-1025: the emulator ran; res is the trimmed content of the output file
invokeLocal(code, res, stderr) ==
    /\ pc = "invokeLocal"
    /\ shell' = [code |-> code, res |-> res, stderr |-> stderr]
    /\ log' = Append(log, Event("sls invoke local", call.functionName,
                                 IF code = 0 THEN "exit 0" ELSE "exit 1"))
    /\ IF code # 0
         THEN invokeSettles(Obj([error |->
                  Err("Error", "invoke failed: " \o (IF res # "" THEN res ELSE stderr))]))
         ELSE invokeSettles(Obj([result |-> IF res = "" THEN Str("") ELSE JSONParse(res)]))
    /\ UNCHANGED <<conf, bucketVars, taskVars, clientVars, nestVars, ctor, request,
                   destroyVars, stackVars, listVars, helperVars, waitVars, moreVars,
                   call, caller, response, unwrapped, deployOpts, items>>

----------------------------------------------------------------------------
(* utils.isLocal and normalizeConfOpts: utils.ts 620-651 *)

\* utils.ts 621-633: the three errors of isLocal
isLocalThrows(opts) ==
    \/ opts.local /\ Truthy(opts.remote)
    \/ opts.local /\ opts.project = ""
    \/ opts.local /\ ~isValidProjectPath(opts.project)

\* utils.ts 635-641: what isLocal returns when it does not throw
isLocal(opts) ==
    IF opts.local THEN TRUE
    ELSE IF opts.remote # "undefined" THEN ~Truthy(opts.remote)
    ELSE opts.project # ""

\* utils.ts 644-651
normalizeConfOpts(opts) ==
    /\ pc = "idle"
    /\ request' = [op |-> "normalizeConfOpts", tag |-> "", data |-> opts]
    /\ pc' = "done"
    /\ IF isLocalThrows(opts)
         THEN outcome' = Threw("InvalidInput") /\ UNCHANGED output
         ELSE /\ outcome' = Returned
              /\ output' = <<[local |-> isLocal(opts), remote |-> ~isLocal(opts),
                              project |-> opts.project]>>
    /\ UNCHANGED <<conf, log, destroyVars, stackVars, invokeVars, listVars, bucketVars,
                   taskVars, clientVars, nestVars, ctor, shell, input, waitVars, moreVars>>

----------------------------------------------------------------------------
(* Conf._invokeLocal, call by call: conf.ts 992-1025 *)

\* most local invocations started in one session
MaxLocalCalls == 2
LocalCalls == 1..MaxLocalCalls
\* the directory the process is started in
HomeDir == "/home/user"
NoLocal == [at |-> "pending", pwd |-> "", tmpInput |-> 0, tmpOutput |-> 0, code |-> -1]

localFrame == <<conf, pc, outcome, destroyVars, stackVars, invokeVars, listVars, bucketVars,
                taskVars, clientVars, nestVars, ctor, request, shell, helperVars, waitVars,
                fileVars, envVars, initVars>>

\* variant: the function awaits after it changed the directory
invokeLocalEnter_Awaits(p, functionName) ==
    /\ thread = 0
    /\ locals[p].at = "pending"
    /\ tmpCount' = tmpCount + 2
    /\ locals' = [locals EXCEPT ![p] = [at |-> "inProject", pwd |-> cwd,
                                        tmpInput |-> tmpCount + 1, tmpOutput |-> tmpCount + 2,
                                        code |-> -1]]
    /\ cwd' = conf.project
    /\ thread' = 0
    /\ log' = Append(log, Event("cd", functionName, conf.project))
    /\ UNCHANGED localFrame

\* conf.ts 1001-1006: two temporary files are created, the input is written, the
\* working directory is kept and changed to the project; no await follows
invokeLocalEnter(p, functionName) ==
    /\ thread = 0
    /\ locals[p].at = "pending"
    /\ tmpCount' = tmpCount + 2
    /\ locals' = [locals EXCEPT ![p] = [at |-> "inProject", pwd |-> cwd,
                                        tmpInput |-> tmpCount + 1, tmpOutput |-> tmpCount + 2,
                                        code |-> -1]]
    /\ cwd' = conf.project
    /\ thread' = p
    /\ log' = Append(log, Event("cd", functionName, conf.project))
    /\ UNCHANGED localFrame

\* conf.ts 1019-1024: the emulator ran (shelljs.exec is synchronous), the
\* directory is changed back, then the output is read and the call ends
invokeLocalRun(p, code) ==
    /\ thread \in {0, p}
    /\ locals[p].at = "inProject"
    /\ locals' = [locals EXCEPT ![p].at = IF code = 0 THEN "returned" ELSE "threw",
                                ![p].code = code]
    /\ cwd' = locals[p].pwd
    /\ thread' = 0
    /\ log' = Append(log, Event("cd", IF code = 0 THEN "exit 0" ELSE "exit 1", locals[p].pwd))
    /\ UNCHANGED <<localFrame, tmpCount>>

\* conf.ts 275-277: invokeAndReturn unwraps the envelope
invokeAndReturn ==
    /\ pc = "invokeReturned"
    /\ caller = "invokeAndReturn"
    /\ pc' = "done"
    /\ LET error == Get(envelope, "error")
           result == Get(envelope, "result")
       IN IF JSTruthy(error)
            THEN outcome' = Threw(error.name) /\ retval' = error
            ELSE outcome' = Returned /\ retval' = result
    /\ UNCHANGED <<conf, log, restVars, destroyVars, stackVars, listVars,
                   call, caller, response, envelope, unwrapped, deployOpts, items>>

\* utils.ts 683-699: the caller of invoke unwraps the envelope it got
unwrapEnvelope ==
    /\ pc = "done"
    /\ caller = "invoke"
    /\ outcome = Returned
    /\ unwrapped = NoValue
    /\ unwrapped' = unwrapReturnValue(envelope)
    /\ UNCHANGED <<conf, pc, log, outcome, restVars, destroyVars, stackVars, listVars,
                   call, caller, response, envelope, retval, deployOpts, items>>

----------------------------------------------------------------------------
(* Conf.deploy, getDeployItems, normalizeDeployOpts: conf.ts 117-132, 244-257, 285-310 *)

\* conf.ts 109: the deployable keys the options hold, whatever their value
getDeployables(opts) == {k \in DEPLOYABLES : opts.flags[k] # "undefined"}

\* conf.ts 118-120 and 127-129
normalizeDeployOptsThrows(opts) ==
    \/ opts.args # 0
    \/ /\ ~(opts.all \/ Cardinality(getDeployables(opts)) = 0)
       /\ Cardinality(getDeployables(opts)) = 0

\* conf.ts 122-131: the options in force, per deployable key
normalizeDeployOpts(opts) ==
    LET all == opts.all \/ Cardinality(getDeployables(opts)) = 0
    IN [k \in DEPLOYABLES |->
          IF all /\ opts.flags[k] = "undefined" THEN TRUE ELSE Truthy(opts.flags[k])]

\* conf.ts 285-310: the keys of the parts assembled from the local files
getDeployItems(opts, hasModelFiles) ==
    LET o == normalizeDeployOpts(opts)
    IN {k \in {"style", "terms", "bot"} : o[k]}
         \cup (IF o["models"] /\ hasModelFiles THEN {"modelsPack"} ELSE {})

\* conf.ts 244-252: deploy assembles the items and invokes setconf
deploy(opts, hasModelFiles) ==
    /\ pc = "idle"
    /\ deployOpts' = opts
    /\ IF normalizeDeployOptsThrows(opts)
         THEN /\ pc' = "done" /\ outcome' = Threw("InvalidInput")
              /\ retval' = Err("InvalidInput", "")
              /\ UNCHANGED <<items, call, caller>>
         ELSE /\ items' = getDeployItems(opts, hasModelFiles)
              /\ IF opts.dryRun
                   THEN /\ pc' = "done" /\ outcome' = Returned /\ retval' = Undefined
                        /\ UNCHANGED <<call, caller>>
                   ELSE /\ pc' = "dispatch"
                        /\ call' = [functionName |-> "setconf", noWarning |-> FALSE,
                                    local |-> "undefined", command |-> "deploy"]
                        /\ caller' = "deploy"
                        /\ UNCHANGED <<outcome, retval>>
    /\ UNCHANGED <<conf, log, restVars, destroyVars, stackVars, listVars,
                   response, envelope, unwrapped>>

\* conf.ts 254-256
deployResume ==
    /\ pc = "invokeReturned"
    /\ caller = "deploy"
    /\ pc' = "done"
    /\ LET error == Get(envelope, "error")
           result == Get(envelope, "result")
       IN IF JSTruthy(error)
            THEN outcome' = Threw(error.name) /\ retval' = error
            ELSE outcome' = Returned /\ retval' = result
    /\ UNCHANGED <<conf, log, restVars, destroyVars, stackVars, listVars,
                   call, caller, response, envelope, unwrapped, deployOpts, items>>

----------------------------------------------------------------------------
(* Conf.exec: conf.ts 378-394 *)

NoRequest == [op |-> "", tag |-> "", data |-> {}]

\* constants.ts: functions.cli
ExecOpts == [noWarning : BOOLEAN]

\* what the remote command answers: envelopes, and values that are none
ExecPayloadTexts ==
    {"null",
     "{\"result\":1}",
     "{\"result\":{\"result\":0}}",
     "{\"error\":{\"message\":\"partial\"},\"result\":1}",
     "{\"error\":{\"name\":\"NotFound\",\"message\":\"no such item\"}}",
     "{\"error\":{\"name\":\"InvalidInput\"}}",
     "{\"error\":{\"name\":\"TypeError\",\"message\":\"x is not a function\"}}",
     "{\"error\":{\"name\":\"Date\",\"message\":\"now\"}}",
     "{\"error\":{\"name\":\"Symbol\",\"message\":\"unique\"}}",
     "{\"error\":\"boom\"}"}
ExecResponses ==
    {resp \in [StatusCode : {200, 500}, Payload : ExecPayloadTexts, FunctionError : {""}] : TRUE}

\* conf.ts 378-383: exec invokes the cli function
exec(opts) ==
    /\ pc = "idle"
    /\ call' = [functionName |-> "cli", noWarning |-> opts.noWarning,
                local |-> "undefined", command |-> "load"]
    /\ caller' = "exec"
    /\ pc' = "dispatch"
    /\ UNCHANGED <<conf, log, outcome, bucketVars, taskVars, clientVars, nestVars,
                   destroyVars, stackVars, listVars, execVars,
                   response, envelope, retval, unwrapped, deployOpts, items>>

\* the inner envelope cannot be destructured: conf.ts 390 on null or undefined
NotDestructurable(v) == v.t \in {"none", "undefined", "null"}

\* variant: only the envelope of invoke is unwrapped
execResume_OneLayer ==
    /\ pc = "invokeReturned"
    /\ caller = "exec"
    /\ pc' = "done"
    /\ LET error == Get(envelope, "error")
           result == Get(envelope, "result")
       IN IF JSTruthy(error)
            THEN /\ outcome' = Threw(normalizeError(error).name)
                 /\ retval' = normalizeError(error)
                 /\ ctor' = normalizeErrorCtor(error)
            ELSE outcome' = Returned /\ retval' = result /\ ctor' = ""
    /\ UNCHANGED <<conf, log, bucketVars, taskVars, clientVars, nestVars,
                   destroyVars, stackVars, listVars, request, otherVars,
                   call, caller, response, envelope, unwrapped, deployOpts, items>>

\* conf.ts 385-393: the envelope of invoke, then the envelope of the cli function;
\* how exec ends on the envelope invoke returned
execResult(env) ==
    LET error == Get(env, "error")
        result == Get(env, "result")
        Raise(e) == [outcome |-> Threw(normalizeError(e).name),
                     retval |-> normalizeError(e),
                     ctor |-> normalizeErrorCtor(e)]
    IN IF JSTruthy(error) THEN Raise(error)
       ELSE IF NotDestructurable(result)
         THEN [outcome |-> Threw("TypeError"),
               retval |-> Err("TypeError", "Cannot destructure property 'error'"),
               ctor |-> ""]
         ELSE IF JSTruthy(Get(result, "error")) THEN Raise(Get(result, "error"))
           ELSE [outcome |-> Returned, retval |-> Get(result, "result"), ctor |-> ""]

\* conf.ts 379-393: invoke returned to exec
execResume ==
    /\ pc = "invokeReturned"
    /\ caller = "exec"
    /\ pc' = "done"
    /\ outcome' = execResult(envelope).outcome
    /\ retval' = execResult(envelope).retval
    /\ ctor' = execResult(envelope).ctor
    /\ UNCHANGED <<conf, log, bucketVars, taskVars, clientVars, nestVars,
                   destroyVars, stackVars, listVars, request, otherVars,
                   call, caller, response, envelope, unwrapped, deployOpts, items>>

----------------------------------------------------------------------------
(* Conf.load: conf.ts 312-341 *)

\* the options load and deploy are followed through: style, bot and models
LoadOpts ==
    {o \in DeployOpts : o.flags["modelsPack"] = "undefined" /\ o.flags["terms"] = "undefined"}

\* what getconf answers
LoadPayloadTexts ==
    {"null",
     "{\"result\":{\"style\":\"s\",\"modelsPack\":{\"models\":[1],\"lenses\":[1]}}}",
     "{\"error\":{\"name\":\"NotFound\",\"message\":\"no such item\"}}"}
LoadResponses ==
    {resp \in [StatusCode : {200, 500}, Payload : LoadPayloadTexts, FunctionError : {""}] : TRUE}

\* conf.ts 323-340: the property of the result each option writes, in order
LoadOrder == <<"style", "bot", "terms", "models">>
ResultProp(k) ==
    CASE k = "style" -> "style"
      [] k = "bot" -> "bot"
      [] k = "terms" -> "termsAndConditions"
      [] k = "models" -> "modelsPack"

\* conf.ts 323-340: the files load writes for the options and the result
RECURSIVE loadWrites(_, _, _)
loadWrites(o, result, i) ==
    IF i > Len(LoadOrder) THEN <<>>
    ELSE LET k == LoadOrder[i]
         IN (IF o[k] /\ JSTruthy(Get(result, ResultProp(k)))
               THEN <<Event("write", k, IF k = "models" THEN "started" ELSE "written")>>
               ELSE <<>>) \o loadWrites(o, result, i + 1)

\* variant: load does not look at dryRun
load_NoDryRun(opts) ==
    /\ pc = "idle"
    /\ deployOpts' = opts
    /\ caller' = "load"
    /\ IF normalizeDeployOptsThrows(opts)
         THEN /\ pc' = "done" /\ outcome' = Threw("InvalidInput")
              /\ retval' = Err("InvalidInput", "")
              /\ UNCHANGED call
         ELSE /\ pc' = "dispatch"
              /\ call' = [functionName |-> "cli", noWarning |-> FALSE,
                          local |-> "undefined", command |-> "load"]
              /\ UNCHANGED <<outcome, retval>>
    /\ UNCHANGED <<conf, log, restVars, destroyVars, stackVars, listVars,
                   response, envelope, unwrapped, items>>

\* conf.ts 312-320: load checks its options and calls exec
load(opts) ==
    /\ pc = "idle"
    /\ deployOpts' = opts
    /\ caller' = "load"
    /\ IF normalizeDeployOptsThrows(opts)
         THEN /\ pc' = "done" /\ outcome' = Threw("InvalidInput")
              /\ retval' = Err("InvalidInput", "")
              /\ UNCHANGED call
         ELSE IF opts.dryRun
           THEN /\ pc' = "done" /\ outcome' = Returned /\ retval' = Undefined
                /\ UNCHANGED call
           ELSE /\ pc' = "dispatch"
                /\ call' = [functionName |-> "cli", noWarning |-> FALSE,
                            local |-> "undefined", command |-> "load"]
                /\ UNCHANGED <<outcome, retval>>
    /\ UNCHANGED <<conf, log, restVars, destroyVars, stackVars, listVars,
                   response, envelope, unwrapped, items>>

\* conf.ts 343-354: the directories writeModels has files for
writeModels(modelsPack) == {prop \in {"models", "lenses"} : JSTruthy(Get(modelsPack, prop))}

\* conf.ts 318-341: exec ended; what it returned is written to the local files;
\* writeModels is called and not awaited, and awaits an array, not its promises
loadResume ==
    /\ pc = "invokeReturned"
    /\ caller = "load"
    /\ pc' = "done"
    /\ ctor' = execResult(envelope).ctor
    /\ LET r == execResult(envelope)
           o == normalizeDeployOpts(deployOpts)
       IN IF r.outcome # Returned
            THEN outcome' = r.outcome /\ retval' = r.retval /\ UNCHANGED <<log, pending>>
            ELSE IF NotDestructurable(r.retval) /\ (\E i \in DOMAIN LoadOrder : o[LoadOrder[i]])
              THEN /\ outcome' = Threw("TypeError")
                   /\ retval' = Err("TypeError", "Cannot read property of undefined")
                   /\ UNCHANGED <<log, pending>>
              ELSE /\ outcome' = Returned
                   /\ retval' = Undefined
                   /\ log' = log \o loadWrites(o, r.retval, 1)
                   /\ pending' = IF o["models"] /\ JSTruthy(Get(r.retval, "modelsPack"))
                                   THEN writeModels(Get(r.retval, "modelsPack"))
                                   ELSE {}
    /\ UNCHANGED <<conf, bucketVars, taskVars, clientVars, nestVars,
                   destroyVars, stackVars, listVars, request, shell, helperVars, waitVars,
                   envVars, localVars, initVars, call, caller, response, envelope, unwrapped, deployOpts,
                   items>>

\* conf.ts 356-361: mkdirp and the writes of one directory have finished
writeToFiles(prop) ==
    /\ prop \in pending
    /\ pending' = pending \ {prop}
    /\ log' = Append(log, Event("write", prop, "written"))
    /\ UNCHANGED <<conf, pc, outcome, bucketVars, taskVars, clientVars, nestVars,
                   destroyVars, stackVars, listVars, invokeVars, ctor, request, shell,
                   helperVars, waitVars, envVars, localVars, initVars>>

----------------------------------------------------------------------------
(* updateEnvironments: utils.ts 597-614 *)

MaxFunctions == 3
Functions == 1..MaxFunctions

envFrame == <<conf, bucketVars, taskVars, clientVars, nestVars, destroyVars, stackVars,
              listVars, invokeVars, ctor, request, shell, helperVars, waitVars, fileVars,
              localVars, initVars>>

\* utils.ts 601: every function's configuration is asked for at once
updateEnvironments(functions) ==
    /\ pc = "idle"
    /\ reading' = functions
    /\ confs' = {}
    /\ updating' = {}
    /\ pc' = IF functions = {} THEN "done" ELSE "reading"
    /\ outcome' = IF functions = {} THEN Returned ELSE outcome
    /\ log' = Append(log, Event("updateEnvironments", functions, "called"))
    /\ UNCHANGED envFrame

\* utils.ts 601-602: Promise.all rejects on the first failed read, and when the
\* last read is answered every async callback of the second map runs up to its
\* await, so every update is issued before any of them is answered
getFunctionConfigurationAnswers(FunctionName, ok) ==
    /\ FunctionName \in reading
    /\ reading' = reading \ {FunctionName}
    /\ log' = Append(log, Event("getFunctionConfiguration", FunctionName, IF ok THEN "ok" ELSE "failed"))
    /\ IF pc # "reading"
         THEN UNCHANGED <<pc, outcome, confs, updating>>
         ELSE IF ~ok
           THEN /\ pc' = "done"
                /\ outcome' = Threw("Error")
                /\ UNCHANGED <<confs, updating>>
           ELSE /\ confs' = confs \cup {FunctionName}
                /\ IF reading' = {}
                     THEN /\ pc' = "updating"
                          /\ updating' = confs'
                     ELSE UNCHANGED <<pc, updating>>
                /\ UNCHANGED outcome
    /\ UNCHANGED envFrame

\* utils.ts 609-613: one update is answered; Promise.all settles on the first
\* failure or on the last success
updateFunctionConfigurationAnswers(FunctionName, ok) ==
    /\ FunctionName \in updating
    /\ updating' = updating \ {FunctionName}
    /\ log' = Append(log, Event("updateFunctionConfiguration", FunctionName, IF ok THEN "ok" ELSE "failed"))
    /\ IF pc # "updating"
         THEN UNCHANGED <<pc, outcome>>
         ELSE IF ~ok
           THEN pc' = "done" /\ outcome' = Threw("Error")
           ELSE IF updating' = {}
             THEN pc' = "done" /\ outcome' = Returned
             ELSE UNCHANGED <<pc, outcome>>
    /\ UNCHANGED <<reading, confs>>
    /\ UNCHANGED envFrame

----------------------------------------------------------------------------
(* createDataClaim, listDataClaims, requestUpdate: conf.ts 155-173, 554-562, 779-790 *)

\* conf.ts 554-562: the props of each method; required defaults to props
ImportProps(method) ==
    CASE method = "createDataClaim" -> {"key", "claimType"}
      [] method = "listDataClaims" -> {"key"}
ImportMethods == {"createDataClaim", "listDataClaims"}
\* the properties the data object holds; "other" is no prop of either method
ImportData == SUBSET {"key", "claimType", "other"}

\* conf.ts 164: _.pick(data, props)
Pick(data, props) == data \cap props

\* conf.ts 163-172: the props are checked; the call of invokeAndReturn that
\* follows is made on the this of the module, which has no such method
importDataUtilsMethod(method, data) ==
    /\ pc = "idle"
    /\ request' = [op |-> method, tag |-> "", data |-> data]
    /\ pc' = "done"
    /\ IF \E prop \in ImportProps(method) : prop \notin Pick(data, ImportProps(method))
         THEN outcome' = Threw("InvalidInput") /\ retval' = Err("InvalidInput", "expected prop")
         ELSE outcome' = Threw("TypeError")
              /\ retval' = Err("TypeError", "this.invokeAndReturn is not a function")
    /\ UNCHANGED <<conf, log, bucketVars, taskVars, clientVars, nestVars, ctor, otherVars,
                   destroyVars, stackVars, listVars,
                   call, caller, response, envelope, unwrapped, deployOpts, items>>

\* tag: "" stands for a tag that is absent or empty
UpdateOpts == [tag : {"", "1.2.0"}]

\* variant: the tag is not checked
requestUpdate_NoTagCheck(opts) ==
    /\ pc = "idle"
    /\ request' = [op |-> "requestUpdate", tag |-> opts.tag, data |-> {}]
    /\ caller' = "requestUpdate"
    /\ IF ensureRemoteThrows(FALSE)
         THEN /\ pc' = "done" /\ outcome' = Threw("InvalidInput")
              /\ retval' = Err("InvalidInput", "not supported for local dev env")
              /\ UNCHANGED call
         ELSE /\ pc' = "dispatch"
              /\ call' = [functionName |-> "cli", noWarning |-> TRUE,
                          local |-> "undefined", command |-> "load"]
              /\ UNCHANGED <<outcome, retval>>
    /\ UNCHANGED <<conf, log, bucketVars, taskVars, clientVars, nestVars, ctor, otherVars,
                   destroyVars, stackVars, listVars,
                   response, envelope, unwrapped, deployOpts, items>>

\* conf.ts 779-789: the tag is checked, then the instance, then exec is called
requestUpdate(opts) ==
    /\ pc = "idle"
    /\ request' = [op |-> "requestUpdate", tag |-> opts.tag, data |-> {}]
    /\ caller' = "requestUpdate"
    /\ IF opts.tag = ""
         THEN /\ pc' = "done" /\ outcome' = Threw("InvalidInput")
              /\ retval' = Err("InvalidInput", "expected string \"tag\"")
              /\ UNCHANGED call
         ELSE IF ensureRemoteThrows(FALSE)
           THEN /\ pc' = "done" /\ outcome' = Threw("InvalidInput")
                /\ retval' = Err("InvalidInput", "not supported for local dev env")
                /\ UNCHANGED call
           ELSE /\ pc' = "dispatch"
                /\ call' = [functionName |-> "cli", noWarning |-> TRUE,
                            local |-> "undefined", command |-> "load"]
                /\ UNCHANGED <<outcome, retval>>
    /\ UNCHANGED <<conf, log, bucketVars, taskVars, clientVars, nestVars, ctor, otherVars,
                   destroyVars, stackVars, listVars,
                   response, envelope, unwrapped, deployOpts, items>>

\* conf.ts 786-790: exec ended
requestUpdateResume ==
    /\ pc = "invokeReturned"
    /\ caller = "requestUpdate"
    /\ pc' = "done"
    /\ ctor' = execResult(envelope).ctor
    /\ outcome' = execResult(envelope).outcome
    /\ retval' = IF execResult(envelope).outcome = Returned
                   THEN Undefined ELSE execResult(envelope).retval
    /\ UNCHANGED <<conf, log, bucketVars, taskVars, clientVars, nestVars,
                   destroyVars, stackVars, listVars, request, otherVars,
                   call, caller, response, envelope, unwrapped, deployOpts, items>>

----------------------------------------------------------------------------
(* calls of getLongFunctionName: conf.ts 280-283, 685, 980 *)

\* conf.ts 980: a short name is expanded
expandName(stackName, functionName) ==
    /\ pc = "idle"
    /\ input' = [fn |-> "getLongFunctionName", stackName |-> stackName, name |-> functionName]
    /\ output' = <<getLongFunctionName(stackName, functionName)>>
    /\ pc' = "done"
    /\ UNCHANGED <<conf, log, outcome, destroyVars, stackVars, invokeVars, listVars,
                   bucketVars, taskVars, clientVars, nestVars, ctor, request, shell, waitVars, moreVars>>

\* conf.ts 685 and 980: a name that was expanded is given to the function again
expandAgain ==
    /\ pc = "done"
    /\ input.fn = "getLongFunctionName"
    /\ Len(output) = 1
    /\ output' = Append(output, getLongFunctionName(input.stackName, output[1]))
    /\ UNCHANGED <<conf, pc, log, outcome, destroyVars, stackVars, invokeVars, listVars,
                   bucketVars, taskVars, clientVars, nestVars, ctor, request, shell, input, waitVars, moreVars>>

----------------------------------------------------------------------------
(* shortenString, parseMyCloudStackName, getServicesStackName: utils.ts 48, 495-527 *)

\* longest <org> that is followed; shortenString cuts above 14 characters
MaxOrgLen == 15
OrgChars == {"a", "-"}
Orgs == UNION {[1..n -> OrgChars] : n \in 0..MaxOrgLen}
Stages == {<<"d", "e", "v">>}
TdlPrefix == <<"t", "d", "l", "-">>
LtdInfix == <<"-", "l", "t", "d", "-">>
SrvcsSuffix == <<"-", "s", "r", "v", "c", "s">>
HexDigits == <<"0", "1", "2", "3", "4", "5", "6", "7", "8", "9", "a", "b", "c", "d", "e", "f">>

\* the code unit of a character
CharCode(c) ==
    CASE c = "-" -> 45
      [] c = "a" -> 97
      [] c = "d" -> 100
      [] c = "e" -> 101
      [] c = "l" -> 108
      [] c = "t" -> 116
      [] c = "v" -> 118
      [] OTHER -> 63

\* utils.ts 495-497: the digest is stood for by a polynomial digest of the
\* characters, written as hexadecimal digits; like the digest of the code it
\* depends on nothing but the string
RECURSIVE Digest(_, _)
Digest(str, h) ==
    IF str = <<>> THEN h ELSE Digest(Tail(str), (h * 31 + CharCode(Head(str))) % 16777216)
RECURSIVE ToHex(_, _)
ToHex(n, digits) ==
    IF digits = 0 THEN <<>> ELSE Append(ToHex(n \div 16, digits - 1), HexDigits[(n % 16) + 1])
sha256(str) == ToHex(Digest(str, 7), 6)

\* String.prototype.slice(0, n)
Slice(str, n) == SubSeq(str, 1, IF n < Len(str) THEN n ELSE Len(str))

\* variant: the string is cut to maxLength and the digest is appended to that
shortenString_CutThenAppend(str, maxLength) ==
    IF Len(str) - maxLength <= 0 THEN str
    ELSE Slice(str, maxLength) \o Slice(sha256(str), 6)

\* utils.ts 499-506 (a string shorter than 6 that is too long throws: not
\* reachable with maxLength 14)
shortenString(str, maxLength) ==
    IF Len(str) - maxLength <= 0 THEN str
    ELSE Slice(str, maxLength - 6) \o Slice(sha256(str), 6)

\* [a-zA-Z]+
IsLetters(str) == str # <<>> /\ \A i \in DOMAIN str : str[i] # "-"

\* utils.ts 48 and 508-514: /^tdl-(.*?)-ltd-([a-zA-Z]+)$/, the first group
\* being the shortest that lets the rest match
parseMyCloudStackName(name) ==
    LET K == {k \in 0..Len(name) :
                /\ OccursAt(name, TdlPrefix, 0)
                /\ OccursAt(name, LtdInfix, 4 + k)
                /\ IsLetters(SubSeq(name, 4 + k + 6, Len(name)))}
        k == CHOOSE x \in K : \A y \in K : x <= y
    IN [shortName |-> SubSeq(name, 5, 4 + k),
        stage |-> SubSeq(name, 4 + k + 6, Len(name))]

\* utils.ts 523-527
getServicesStackName(stackName) ==
    shortenString(parseMyCloudStackName(stackName).shortName, 14) \o SrvcsSuffix

\* conf.ts 926: the name of the services stack is derived
servicesName(stackName) ==
    /\ pc = "idle"
    /\ input' = [fn |-> "getServicesStackName", stackName |-> stackName, name |-> <<>>]
    /\ output' = <<getServicesStackName(stackName)>>
    /\ pc' = "done"
    /\ UNCHANGED <<conf, log, outcome, destroyVars, stackVars, invokeVars, listVars,
                   bucketVars, taskVars, clientVars, nestVars, ctor, request, shell, waitVars, moreVars>>

\* conf.ts 926: it is derived again for the same stack
servicesNameAgain ==
    /\ pc = "done"
    /\ input.fn = "getServicesStackName"
    /\ Len(output) = 1
    /\ output' = Append(output, getServicesStackName(input.stackName))
    /\ UNCHANGED <<conf, pc, log, outcome, destroyVars, stackVars, invokeVars, listVars,
                   bucketVars, taskVars, clientVars, nestVars, ctor, request, shell, input, waitVars, moreVars>>

----------------------------------------------------------------------------
(* utils.getStackTemplate: utils.ts 354-367 *)

\* longest template body that is followed
MaxBodyLen == 3
BodyChars == {" ", "{", "}", "a"}
TemplateBodies == UNION {[1..n -> BodyChars] : n \in 0..MaxBodyLen}

\* String.prototype.trim
RECURSIVE TrimStart(_)
TrimStart(str) == IF str # <<>> /\ Head(str) = " " THEN TrimStart(Tail(str)) ELSE str
RECURSIVE TrimEnd(_)
TrimEnd(str) ==
    IF str # <<>> /\ str[Len(str)] = " " THEN TrimEnd(SubSeq(str, 1, Len(str) - 1)) ELSE str
Trim(str) == TrimEnd(TrimStart(str))
\* String.prototype.startsWith
StartsWith(str, t) == OccursAt(str, t, 0)

\* utils.ts 358-360: getTemplate is called
getStackTemplate ==
    /\ pc = "idle"
    /\ pc' = "getTemplate"
    /\ input' = [fn |-> "getStackTemplate", stackName |-> <<>>, name |-> <<>>]
    /\ UNCHANGED <<conf, log, outcome, destroyVars, stackVars, invokeVars, listVars,
                   bucketVars, taskVars, clientVars, nestVars, ctor, request, shell,
                   output, waitVars, moreVars>>

\* utils.ts 358-360: the provider rejects the call
getTemplateRejects ==
    /\ pc = "getTemplate"
    /\ log' = Append(log, Event("getTemplate", conf.stackName, "AccessDenied"))
    /\ pc' = "done"
    /\ outcome' = Threw("AccessDenied")
    /\ UNCHANGED <<conf, destroyVars, stackVars, invokeVars, listVars,
                   bucketVars, taskVars, clientVars, nestVars, ctor, request, shell,
                   input, output, waitVars, moreVars>>

\* variant: a body the first parser rejects is given to the other parser
getTemplateAnswers_Retry(body, jsonParses, yamlLoads) ==
    /\ pc = "getTemplate"
    /\ input' = [input EXCEPT !.name = body]
    /\ pc' = "done"
    /\ LET answered == Append(log, Event("getTemplate", conf.stackName, "ok"))
           json == Event("JSON.parse", "TemplateBody", IF jsonParses THEN "ok" ELSE "SyntaxError")
           yaml == Event("YAML.safeLoad", "TemplateBody", IF yamlLoads THEN "ok" ELSE "YAMLException")
       IN IF StartsWith(Trim(body), <<"{">>)
            THEN /\ log' = IF jsonParses THEN Append(answered, json)
                                          ELSE Append(Append(answered, json), yaml)
                 /\ outcome' = IF jsonParses \/ yamlLoads THEN Returned ELSE Threw("YAMLException")
            ELSE /\ log' = Append(answered, yaml)
                 /\ outcome' = IF yamlLoads THEN Returned ELSE Threw("YAMLException")
    /\ UNCHANGED <<conf, destroyVars, stackVars, invokeVars, listVars,
                   bucketVars, taskVars, clientVars, nestVars, ctor, request, shell,
                   output, waitVars, moreVars>>

\* utils.ts 362-366: the provider answers with the body, and the body is parsed;
\* jsonParses and yamlLoads tell what each parser makes of the body
getTemplateAnswers(body, jsonParses, yamlLoads) ==
    /\ pc = "getTemplate"
    /\ input' = [input EXCEPT !.name = body]
    /\ pc' = "done"
    /\ LET answered == Append(log, Event("getTemplate", conf.stackName, "ok"))
           json == Event("JSON.parse", "TemplateBody", IF jsonParses THEN "ok" ELSE "SyntaxError")
           yaml == Event("YAML.safeLoad", "TemplateBody", IF yamlLoads THEN "ok" ELSE "YAMLException")
       IN IF StartsWith(Trim(body), <<"{">>)
            THEN /\ log' = Append(answered, json)
                 /\ outcome' = IF jsonParses THEN Returned ELSE Threw("SyntaxError")
            ELSE /\ log' = Append(answered, yaml)
                 /\ outcome' = IF yamlLoads THEN Returned ELSE Threw("YAMLException")
    /\ UNCHANGED <<conf, destroyVars, stackVars, invokeVars, listVars,
                   bucketVars, taskVars, clientVars, nestVars, ctor, request, shell,
                   output, waitVars, moreVars>>

----------------------------------------------------------------------------
(* utils.listStackResources and utils.listStacks: utils.ts 172-191, 406-429 *)

MaxPages == 3
MaxPageLen == 2

ResourceSummaries ==
    {[ResourceType |-> "AWS::S3::Bucket", PhysicalResourceId |-> "tdl-acme-ltd-dev-objects"],
     [ResourceType |-> "AWS::Lambda::Function", PhysicalResourceId |-> "tdl-acme-ltd-dev-cli"]}
StackSummaries ==
    {[StackId |-> "arn:stack/1", StackName |-> "tdl-acme-ltd-dev", StackStatus |-> "CREATE_COMPLETE"],
     [StackId |-> "arn:stack/2", StackName |-> "other", StackStatus |-> "UPDATE_COMPLETE"]}

SeqsUpTo(S, n) == UNION {[1..k -> S] : k \in 0..n}
\* a page lists up to MaxPageLen items, none of them twice
PageChoices(S) ==
    {pg \in SeqsUpTo(S, MaxPageLen) : \A i, j \in DOMAIN pg : pg[i] = pg[j] => i = j}
\* what the provider holds: one to MaxPages pages
PagesOf(S) == SeqsUpTo(PageChoices(S), MaxPages) \ {<<>>}

ResourceFilters == {"acceptAll", "AWS::S3::Bucket"}
StackFilters == {"acceptAll", "tdl-acme-ltd-dev"}
\* utils.ts 193-240: the filters the typed helpers pass, by resource type
AcceptResource(filter, r) == filter = "acceptAll" \/ r.ResourceType = filter
AcceptStack(filter, st) == filter = "acceptAll" \/ st.StackName = filter

NoListOp == [fn |-> "", filter |-> ""]

\* longest resource listing the typed helpers are followed on
MaxTypedLen == 3
\* the resources a stack may hold, one of each type the provider knows
TypedSummaries ==
    {[ResourceType |-> "AWS::S3::Bucket", PhysicalResourceId |-> "tdl-acme-ltd-dev-objects"],
     [ResourceType |-> "AWS::Lambda::Function", PhysicalResourceId |-> "tdl-acme-ltd-dev-cli"],
     [ResourceType |-> "AWS::DynamoDB::Table", PhysicalResourceId |-> "tdl-acme-ltd-dev-bucket-0"],
     [ResourceType |-> "AWS::CloudFormation::Stack", PhysicalResourceId |-> "arn:stack/nested"]}
HelperPairs == {"Buckets", "Functions", "Tables", "Substacks"}

\* utils.ts 193-195, over the whole listing (listStackResources, 172-191,
\* concatenates the filtered pages)
listStackResourcesByType(type, resources) ==
    LET T(r) == r.ResourceType = type IN SelectSeq(resources, T)

\* utils.ts 197-200
listStackResourceIdsByType(type, resources) ==
    LET rs == listStackResourcesByType(type, resources)
    IN [i \in 1..Len(rs) |-> rs[i].PhysicalResourceId]

\* utils.ts 202-240: the type each list helper passes
listHelperType(pair) ==
    CASE pair = "Buckets" -> "AWS::S3::Bucket"
      [] pair = "Functions" -> "AWS::Lambda::Function"
      [] pair = "Tables" -> "AWS::Dynamodb::Table"
      [] pair = "Substacks" -> "AWS::CloudFormation::Stack"

\* utils.ts 202-240: the type each Ids helper passes
idsHelperType(pair) ==
    CASE pair = "Buckets" -> "AWS::S3::Bucket"
      [] pair = "Functions" -> "AWS::Lambda::Function"
      [] pair = "Tables" -> "AWS::DynamoDB::Table"
      [] pair = "Substacks" -> "AWS::CloudFormation::Stack"

\* both helpers of a pair are called on the same stack
listTyped(pair, resources) ==
    /\ pc = "idle"
    /\ request' = [op |-> pair, tag |-> "", data |-> resources]
    /\ output' = <<listStackResourcesByType(listHelperType(pair), resources),
                   listStackResourceIdsByType(idsHelperType(pair), resources)>>
    /\ pc' = "done"
    /\ outcome' = Returned
    /\ UNCHANGED <<conf, log, destroyVars, stackVars, invokeVars, listVars, bucketVars,
                   taskVars, clientVars, nestVars, ctor, shell, input, waitVars, moreVars>>

\* the provider's answer to a list call: token 0 stands for no token and names
\* the first page; page k carries the token of page k + 1 unless it is the last
PageFor(token) == IF token = 0 THEN 1 ELSE token
NextTokenOf(token) == IF PageFor(token) < Len(pages) THEN PageFor(token) + 1 ELSE 0

\* utils.ts 172-179 and 406-413: the list function is called
listCall(fn, filter, pgs) ==
    /\ pc = "idle"
    /\ listOp' = [fn |-> fn, filter |-> filter]
    /\ pages' = pgs
    /\ reqToken' = 0
    /\ sent' = <<>>
    /\ acc' = <<>>
    /\ pc' = "listing"
    /\ UNCHANGED <<conf, log, outcome, restVars, destroyVars, stackVars, invokeVars>>

\* variant: the loop ends after the first page
listStackResourcesPage_OnePage ==
    /\ pc = "listing"
    /\ listOp.fn = "listStackResources"
    /\ LET T(r) == AcceptResource(listOp.filter, r)
       IN acc' = acc \o SelectSeq(pages[PageFor(reqToken)], T)
    /\ sent' = Append(sent, reqToken)
    /\ reqToken' = NextTokenOf(reqToken)
    /\ pc' = "done" /\ outcome' = Returned
    /\ UNCHANGED <<conf, log, restVars, destroyVars, stackVars, invokeVars, pages, listOp>>

\* utils.ts 179-188: one turn of the loop of listStackResources
listStackResourcesPage ==
    /\ pc = "listing"
    /\ listOp.fn = "listStackResources"
    /\ LET T(r) == AcceptResource(listOp.filter, r)
       IN acc' = acc \o SelectSeq(pages[PageFor(reqToken)], T)
    /\ sent' = Append(sent, reqToken)
    /\ reqToken' = NextTokenOf(reqToken)
    /\ IF NextTokenOf(reqToken) = 0
         THEN pc' = "done" /\ outcome' = Returned
         ELSE pc' = "listing" /\ UNCHANGED outcome
    /\ UNCHANGED <<conf, log, restVars, destroyVars, stackVars, invokeVars, pages, listOp>>

\* utils.ts 417-420: what listStacks keeps of a stack summary
StackInfo(st) == [id |-> st.StackId, name |-> st.StackName]

\* utils.ts 413-426: one turn of the loop of listStacks
listStacksPage ==
    /\ pc = "listing"
    /\ listOp.fn = "listStacks"
    /\ LET T(st) == AcceptStack(listOp.filter, st)
           kept == SelectSeq(pages[PageFor(reqToken)], T)
       IN acc' = acc \o [i \in 1..Len(kept) |-> StackInfo(kept[i])]
    /\ sent' = Append(sent, reqToken)
    /\ reqToken' = NextTokenOf(reqToken)
    /\ IF NextTokenOf(reqToken) = 0
         THEN pc' = "done" /\ outcome' = Returned
         ELSE pc' = "listing" /\ UNCHANGED outcome
    /\ UNCHANGED <<conf, log, restVars, destroyVars, stackVars, invokeVars, pages, listOp>>

\* utils.ts 183 and 416: the provider rejects a list call, the error propagates
listRejects ==
    /\ pc = "listing"
    /\ sent' = Append(sent, reqToken)
    /\ pc' = "done"
    /\ outcome' = Threw("AccessDenied")
    /\ UNCHANGED <<conf, log, restVars, destroyVars, stackVars, invokeVars, pages, listOp, reqToken, acc>>

----------------------------------------------------------------------------
(* utils.destroyBucket, utils.ts 242-252 *)

\* most calls of destroyBucket in one run
MaxDestroyCalls == 3

\* the buckets of the stack, and a name no bucket ever had
StackBuckets == {AllBuckets[1], AllBuckets[2]}
BucketNames == StackBuckets \cup {"no-such-bucket"}

\* Errors.ignore(err, matchers): returns when the error matches one of the
\* matchers, throws the error again otherwise
ErrorsIgnore(code, codes) == IF code \in codes THEN "ok" ELSE code

\* what emptyBucket can answer for a bucket: on an absent bucket its listing is
\* answered NoSuchBucket, which it either lets through or tolerates
EmptyAnswers(b) == IF b \in existing THEN {"ok", "AccessDenied"} ELSE {"ok", "NoSuchBucket"}
\* what the provider can answer to deleteBucket
DeleteBucketAnswers(b) == IF b \in existing THEN {"ok", "AccessDenied"} ELSE {"NoSuchBucket"}

DestroyCalls == Count(log, LAMBDA e : e.ev = "destroyBucket" /\ e.res = "called")

\* utils.ts 242: destroyBucket is called
destroyBucketCall(b) ==
    /\ pc = "idle"
    /\ DestroyCalls < MaxDestroyCalls
    /\ target' = b
    /\ pc' = "emptyBucket"
    /\ log' = Append(log, Event("destroyBucket", b, "called"))
    /\ outcome' = NoOutcome
    /\ UNCHANGED <<conf, opVars, taskVars, clientVars, nestVars, existing>>

\* utils.ts 243: await emptyBucket(s3, Bucket), outside the try block
destroyBucketEmptied(res) ==
    /\ pc = "emptyBucket"
    /\ res \in EmptyAnswers(target)
    /\ log' = Append(Append(log, Event("emptyBucket", target, res)),
                     IF res = "ok" THEN Event("deleteBucket", target, "issued")
                     ELSE Event("destroyBucket", target, res))
    /\ IF res = "ok"
         THEN pc' = "deleteBucket" /\ UNCHANGED outcome
         ELSE pc' = "idle" /\ outcome' = Threw(res)
    /\ UNCHANGED <<conf, opVars, taskVars, clientVars, nestVars, existing, target>>

\* variant: every error of deleteBucket is ignored
destroyBucketDeleted_IgnoreAll(res) ==
    /\ pc = "deleteBucket"
    /\ res \in DeleteBucketAnswers(target)
    /\ existing' = IF res = "ok" THEN existing \ {target} ELSE existing
    /\ log' = Append(Append(log, Event("deleteBucket", target, res)),
                     Event("destroyBucket", target, "ok"))
    /\ outcome' = Returned
    /\ pc' = "idle"
    /\ UNCHANGED <<conf, opVars, taskVars, clientVars, nestVars, target>>

\* utils.ts 244-251: deleteBucket, with the not-found errors ignored
destroyBucketDeleted(res) ==
    /\ pc = "deleteBucket"
    /\ res \in DeleteBucketAnswers(target)
    /\ existing' = IF res = "ok" THEN existing \ {target} ELSE existing
    /\ LET end == IF res = "ok" THEN "ok"
                  ELSE ErrorsIgnore(res, {"ResourceNotFoundException", "NoSuchBucket"})
       IN /\ log' = Append(Append(log, Event("deleteBucket", target, res)),
                           Event("destroyBucket", target, end))
          /\ outcome' = IF end = "ok" THEN Returned ELSE Threw(end)
    /\ pc' = "idle"
    /\ UNCHANGED <<conf, opVars, taskVars, clientVars, nestVars, target>>

----------------------------------------------------------------------------
(* task lists: new Listr(tasks).run(), conf.ts 447-475 and 903-950; Conf.init *)

\* conf.ts 926-947
KYCTasks == <<"validate template", "create/update KYC services stack">>
\* conf.ts 447-473
InitTasks(loadCurrentConf) ==
    <<"loading deployment info", "initializing local conf", "saving .env">>
      \o (IF loadCurrentConf THEN <<"loading remote configuration">> ELSE <<>>)

\* conf.ts 903-950: enableKYCServices has asked its questions and runs its list
enableKYCServices ==
    /\ pc = "idle"
    /\ tasks' = KYCTasks
    /\ taskIdx' = 1
    /\ pc' = "listr"
    /\ UNCHANGED <<conf, log, outcome, opVars, bucketVars, clientVars, nestVars>>

\* conf.ts 198, 220-225: region, profile and stack id the instance was built with
ConstructedSettings == [region |-> "eu-west-2", profile |-> "work", stackId |-> "arn:stack/0"]
NoAnswers == [haveLocal |-> FALSE, haveRemote |-> FALSE, overwriteEnv |-> "undefined", asked |-> FALSE]

\* prompts.init (conf.ts 1669-1776): region, profile and stack are asked for a
\* remote deployment only; without one they are undefined
promptedSettings(haveRemote, stackName) ==
    IF haveRemote
      THEN [region |-> "us-east-1", profile |-> "default",
            stackId |-> IF stackName = "" THEN "" ELSE "arn:stack/1"]
      ELSE [region |-> "", profile |-> "", stackId |-> ""]

initFrame == <<log, destroyVars, stackVars, invokeVars, listVars, ctor, request, shell,
               helperVars, waitVars, fileVars, envVars, localVars, bucketVars, nestVars>>

\* variant: the instance is updated before the answers are looked at
init_AssignsFirst(haveLocal, haveRemote, overwriteEnv, stackName, loadCurrentConf) ==
    /\ pc = "idle"
    /\ answers' = [haveLocal |-> haveLocal, haveRemote |-> haveRemote,
                   overwriteEnv |-> overwriteEnv, asked |-> TRUE]
    /\ conf' = [conf EXCEPT !.remote = haveRemote, !.stackName = stackName]
    /\ settings' = promptedSettings(haveRemote, stackName)
    /\ client' = 0
    /\ clientLog' = Append(clientLog, ClientEvent("invalidate", 0, "init"))
    /\ IF overwriteEnv = "false" \/ ~(haveLocal \/ haveRemote)
         THEN /\ pc' = "done" /\ outcome' = Returned
              /\ UNCHANGED taskVars
         ELSE /\ tasks' = IF haveRemote THEN InitTasks(loadCurrentConf) ELSE <<"saving .env">>
              /\ taskIdx' = 1
              /\ pc' = IF haveRemote THEN "listr" ELSE "saveEnv"
              /\ UNCHANGED outcome
    /\ UNCHANGED initFrame

\* conf.ts 396-476: init, from the answers of promptInit to the start of the
\* task list (or of saveEnv when there is no remote deployment)
init(haveLocal, haveRemote, overwriteEnv, stackName, loadCurrentConf) ==
    /\ pc = "idle"
    /\ answers' = [haveLocal |-> haveLocal, haveRemote |-> haveRemote,
                   overwriteEnv |-> overwriteEnv, asked |-> TRUE]
    /\ IF overwriteEnv = "false" \/ ~(haveLocal \/ haveRemote)
         THEN /\ pc' = "done" /\ outcome' = Returned
              /\ UNCHANGED <<conf, taskVars, clientVars, settings>>
         ELSE /\ conf' = [conf EXCEPT !.remote = haveRemote, !.stackName = stackName]
              /\ settings' = promptedSettings(haveRemote, stackName)
              /\ client' = 0
              /\ clientLog' = Append(clientLog, ClientEvent("invalidate", 0, "init"))
              /\ tasks' = IF haveRemote THEN InitTasks(loadCurrentConf) ELSE <<"saving .env">>
              /\ taskIdx' = 1
              /\ pc' = IF haveRemote THEN "listr" ELSE "saveEnv"
              /\ UNCHANGED outcome
    /\ UNCHANGED initFrame

\* conf.ts 474-476: await saveEnv() when there is no remote deployment
initSaveEnv(ok) ==
    /\ pc = "saveEnv"
    /\ log' = Append(log, Event("saveEnv", ".env", IF ok THEN "ok" ELSE "failed"))
    /\ pc' = "done"
    /\ outcome' = IF ok THEN Returned ELSE Threw("Error")
    /\ UNCHANGED <<conf, opVars, restVars>>

\* variant: a failed task does not stop the list
listrTask_ContinueOnError(ok) ==
    /\ pc = "listr"
    /\ log' = Append(log, Event("task", tasks[taskIdx], IF ok THEN "ok" ELSE "failed"))
    /\ IF taskIdx < Len(tasks)
         THEN taskIdx' = taskIdx + 1 /\ UNCHANGED <<pc, outcome>>
         ELSE /\ pc' = "done"
              /\ outcome' = (IF ok THEN Returned ELSE Threw("Error"))
              /\ UNCHANGED taskIdx
    /\ UNCHANGED <<conf, opVars, bucketVars, clientVars, nestVars, tasks>>

\* Listr.run (conf.ts 473 and 950): the running task settles; the next task
\* starts after it, a failure ends the run and is thrown to the caller
listrTask(ok) ==
    /\ pc = "listr"
    /\ log' = Append(log, Event("task", tasks[taskIdx], IF ok THEN "ok" ELSE "failed"))
    /\ IF ok /\ taskIdx < Len(tasks)
         THEN taskIdx' = taskIdx + 1 /\ UNCHANGED <<pc, outcome>>
         ELSE /\ pc' = "done"
              /\ outcome' = (IF ok THEN Returned ELSE Threw("Error"))
              /\ UNCHANGED taskIdx
    /\ UNCHANGED <<conf, opVars, bucketVars, clientVars, nestVars, tasks>>

----------------------------------------------------------------------------
(* the client set: conf.ts 229-241, 486-535 *)

\* longest record of constructions, uses and invalidations that is followed
MaxClientOps == 6

\* conf.ts 486-518: _getAWSClient builds a new client set at every call; the
\* sets are numbered in the order they are built
Built(lg) == Cardinality({i \in DOMAIN lg : lg[i].ev = "construct"})
getAWSClient(lg, op) == Append(lg, ClientEvent("construct", Built(lg) + 1, op))

\* conf.ts 234-240: the getter of this.client builds the set when none is cached
clientGet(lg, op) ==
    IF client = 0
      THEN [client |-> Built(lg) + 1, log |-> getAWSClient(lg, op)]
      ELSE [client |-> client, log |-> lg]

\* operations that take this.client: conf.ts 586-618, 846, 927-978
ClientUsers == {"getApiBaseUrl", "invoke"}

\* an operation that reads this.client
thisClient(op) ==
    /\ pc \in {"idle", "done"}
    /\ Len(clientLog) + 2 <= MaxClientOps
    /\ client' = clientGet(clientLog, op).client
    /\ clientLog' = Append(clientGet(clientLog, op).log,
                           ClientEvent("use", clientGet(clientLog, op).client, op))
    /\ UNCHANGED <<conf, pc, log, outcome, opVars, bucketVars, taskVars, nestVars>>

\* conf.ts 520-523: getStacks lists through a client set it builds itself
getStacks ==
    /\ pc \in {"idle", "done"}
    /\ Len(clientLog) + 2 <= MaxClientOps
    /\ clientLog' = Append(getAWSClient(clientLog, "getStacks"),
                           ClientEvent("use", Built(clientLog) + 1, "getStacks"))
    /\ UNCHANGED <<conf, pc, log, outcome, opVars, bucketVars, taskVars, nestVars, client>>

\* conf.ts 525-529: waitForStackUpdate waits through a client set it builds itself
waitForStackUpdate ==
    /\ pc \in {"idle", "done"}
    /\ Len(clientLog) + 2 <= MaxClientOps
    /\ clientLog' = Append(getAWSClient(clientLog, "waitForStackUpdate"),
                           ClientEvent("use", Built(clientLog) + 1, "waitForStackUpdate"))
    /\ UNCHANGED <<conf, pc, log, outcome, opVars, bucketVars, taskVars, nestVars, client>>

\* conf.ts 531-535: waitForStackDelete builds a client set, then waits through
\* this.client
waitForStackDelete ==
    /\ pc \in {"idle", "done"}
    /\ Len(clientLog) + 3 <= MaxClientOps
    /\ LET built == getAWSClient(clientLog, "waitForStackDelete")
           got == clientGet(built, "waitForStackDelete")
       IN /\ client' = got.client
          /\ clientLog' = Append(got.log, ClientEvent("use", got.client, "waitForStackDelete"))
    /\ UNCHANGED <<conf, pc, log, outcome, opVars, bucketVars, taskVars, nestVars>>

----------------------------------------------------------------------------
(* recursion through nested stacks: utils.getStackTemplates, utils.ts 101-108, *)
(* and listRetainedResources, conf.ts 1898-1916                               *)

Stacks == {"root", "nested-a", "nested-b"}
\* what the provider lists as the nested stacks of each stack
Nestings == [Stacks -> SUBSET Stacks]

\* utils.ts 101 / conf.ts 1898: the enumeration is called on the main stack
walkCall(fn, g) ==
    /\ pc = "idle"
    /\ walker' = fn
    /\ nesting' = g
    /\ frontier' = {"root"}
    /\ fetched' = {}
    /\ pc' = "walking"
    /\ UNCHANGED <<conf, log, outcome, opVars, bucketVars, taskVars, clientVars>>

\* utils.ts 102-107: one call fetches the template of its stack, lists the
\* nested stacks and calls itself on each of them; the enumeration returns
\* when no call is pending
getStackTemplates(st) ==
    /\ pc = "walking"
    /\ walker = "getStackTemplates"
    /\ st \in frontier
    /\ fetched' = fetched \cup {st}
    /\ frontier' = (frontier \ {st}) \cup nesting[st]
    /\ IF (frontier \ {st}) \cup nesting[st] = {}
         THEN pc' = "done" /\ outcome' = Returned
         ELSE UNCHANGED <<pc, outcome>>
    /\ UNCHANGED <<conf, log, opVars, bucketVars, taskVars, clientVars, nesting, walker>>

\* conf.ts 1899-1915: the same recursion over the resources of type stack
listRetainedResources(st) ==
    /\ pc = "walking"
    /\ walker = "listRetainedResources"
    /\ st \in frontier
    /\ fetched' = fetched \cup {st}
    /\ frontier' = (frontier \ {st}) \cup nesting[st]
    /\ IF (frontier \ {st}) \cup nesting[st] = {}
         THEN pc' = "done" /\ outcome' = Returned
         ELSE UNCHANGED <<pc, outcome>>
    /\ UNCHANGED <<conf, log, opVars, bucketVars, taskVars, clientVars, nesting, walker>>

\* a provider call of the enumeration is rejected, the error propagates
walkRejects ==
    /\ pc = "walking"
    /\ pc' = "done"
    /\ outcome' = Threw("AccessDenied")
    /\ UNCHANGED <<conf, log, opVars, bucketVars, taskVars, clientVars, nestVars>>

----------------------------------------------------------------------------
(* utils.getStackId and isUpdateableStatus, utils.ts 341-352 *)

\* most stacks the provider lists to getStackId
MaxStacks == 2

\* a stack status is written as its words: UPDATE_ROLLBACK_COMPLETE is
\* <<"UPDATE", "ROLLBACK", "COMPLETE">>
StackStatuses ==
    {<<"CREATE", "COMPLETE">>,
     <<"UPDATE", "IN", "PROGRESS">>,
     <<"UPDATE", "COMPLETE", "CLEANUP", "IN", "PROGRESS">>,
     <<"UPDATE", "ROLLBACK", "COMPLETE">>,
     <<"DELETE", "IN", "PROGRESS">>,
     <<"DELETE", "COMPLETE">>}

RECURSIVE JoinWords(_)
JoinWords(ws) ==
    IF Len(ws) = 1 THEN ws[1] ELSE ws[1] \o "_" \o JoinWords(Tail(ws))

LookupNames == {"tdl-acme-ltd-dev", "tdl-acme-ltd-dev-srvcs"}
\* the stack summaries of the provider: one id for each name and status
StatusSummaries ==
    {[StackId |-> "arn:" \o name \o "/" \o JoinWords(status),
      StackName |-> name, StackStatus |-> status] :
        name \in LookupNames, status \in StackStatuses}

\* variant: the deletion prefix is not looked at
isUpdateableStatus_AnyComplete(status) ==
    Len(status) >= 2 /\ status[Len(status)] = "COMPLETE"

\* utils.ts 341-343: status.endsWith('_COMPLETE') && !status.startsWith('DELETE_')
isUpdateableStatus(status) ==
    /\ Len(status) >= 2 /\ status[Len(status)] = "COMPLETE"
    /\ ~(Len(status) >= 2 /\ status[1] = "DELETE")

\* utils.ts 345-352: listStacks with the filter on name and status, then the
\* id of the first stack kept, if any
getStackId(stackName, listing) ==
    /\ pc = "idle"
    /\ listOp' = [fn |-> "getStackId", filter |-> stackName]
    /\ pages' = <<listing>>
    /\ LET T(st) == st.StackName = stackName /\ isUpdateableStatus(st.StackStatus)
           kept == SelectSeq(listing, T)
           stacks == [i \in 1..Len(kept) |-> StackInfo(kept[i])]
       IN /\ acc' = stacks
          /\ retval' = IF stacks # <<>> THEN Str(stacks[1].id) ELSE Undefined
    /\ pc' = "done"
    /\ outcome' = Returned
    /\ UNCHANGED <<conf, log, destroyVars, stackVars, restVars, reqToken, sent,
                   call, caller, response, envelope, unwrapped, deployOpts, items>>

----------------------------------------------------------------------------
(* Conf.enableKYCServices: conf.ts 857-952 *)

\* the characters of the stack name of the model's instances
StackNameChars ==
    <<"t", "d", "l", "-", "a", "c", "m", "e", "-", "l", "t", "d", "-", "d", "e", "v">>

RECURSIVE JoinChars(_)
JoinChars(cs) == IF cs = <<>> THEN "" ELSE cs[1] \o JoinChars(Tail(cs))

\* conf.ts 926: utils.getServicesStackName(this.stackName)
KYCStackName == JoinChars(getServicesStackName(StackNameChars))

\* the stacks the provider may list: the instance's own and its companion
KYCSummaries ==
    {[StackId |-> "arn:" \o name \o "/" \o JoinWords(status),
      StackName |-> name, StackStatus |-> status] :
        name \in {"tdl-acme-ltd-dev", KYCStackName},
        status \in {<<"CREATE", "COMPLETE">>, <<"UPDATE", "IN", "PROGRESS">>,
                    <<"DELETE", "COMPLETE">>}}

\* utils.ts 345-352: stacks[0] && stacks[0].id
stackIdOf(stackName, listing) ==
    LET T(st) == st.StackName = stackName /\ isUpdateableStatus(st.StackStatus)
        kept == SelectSeq(listing, T)
    IN IF kept # <<>> THEN StackInfo(kept[1]).id ELSE "undefined"

\* conf.ts 866-869
repoNames(truefaceSpoof, rankOne) ==
    IF truefaceSpoof /\ rankOne THEN "trueface-spoof, rank-one"
    ELSE IF truefaceSpoof THEN "trueface-spoof"
    ELSE IF rankOne THEN "rank-one" ELSE ""

kycFrame == <<conf, destroyVars, call, caller, response, envelope, unwrapped, deployOpts,
              items, listOp, reqToken, sent, acc, bucketVars, clientVars, nestVars, execVars>>

\* conf.ts 857-860 and 954-956: the guards, then the private conf bucket is looked up
kycStart(truefaceSpoof, rankOne) ==
    /\ pc = "idle"
    /\ stackOp = "idle"
    /\ log' = Append(log, Event("enableKYCServices", repoNames(truefaceSpoof, rankOne), "called"))
    /\ IF ensureRemoteThrows(FALSE) \/ ensureStackNameKnownThrows
         THEN pc' = "done" /\ outcome' = Threw("InvalidInput")
         ELSE pc' = "kycBucket" /\ UNCHANGED outcome
    /\ UNCHANGED <<kycFrame, stackVars, retval, pages, taskVars>>

\* conf.ts 860: await this._getPrivateConfBucket()
kycPrivateConfBucket(ok) ==
    /\ pc = "kycBucket"
    /\ log' = Append(log, Event("listStackBucketIds", conf.stackName, IF ok THEN "ok" ELSE "failed"))
    /\ IF ok
         THEN pc' = "kycConfirmServices" /\ UNCHANGED outcome
         ELSE pc' = "done" /\ outcome' = Threw("ProviderError")
    /\ UNCHANGED <<kycFrame, stackVars, retval, pages, taskVars>>

\* conf.ts 865: enable/disable TrueFace Spoof, enable/disable RankOne?
kycConfirmServices(answer) ==
    /\ pc = "kycConfirmServices"
    /\ log' = Append(log, Event("confirm", "services", confirmOrAbort(answer)))
    /\ IF confirmOrAbort(answer) = "ok"
         THEN pc' = "kycConfirmAccess" /\ UNCHANGED outcome
         ELSE pc' = "done" /\ outcome' = Threw("UserAborted")
    /\ UNCHANGED <<kycFrame, stackVars, retval, pages, taskVars>>

\* conf.ts 871: has Tradle given you access to the following ECR repositories?
kycConfirmAccess(answer) ==
    /\ pc = "kycConfirmAccess"
    /\ log' = Append(log, Event("confirm", "access", confirmOrAbort(answer)))
    /\ IF confirmOrAbort(answer) = "ok"
         THEN pc' = "kycConfirmSSH" /\ UNCHANGED outcome
         ELSE pc' = "done" /\ outcome' = Threw("UserAborted")
    /\ UNCHANGED <<kycFrame, stackVars, retval, pages, taskVars>>

\* conf.ts 873 and 895-901, 950: the answer about SSH; with SSH a key pair
\* is chosen first, without it the task list starts
kycConfirmSSH(enableSSH) ==
    /\ pc = "kycConfirmSSH"
    /\ log' = Append(log, Event("confirm", "ssh", IF enableSSH THEN "yes" ELSE "no"))
    /\ IF enableSSH
         THEN pc' = "kycKeyPair" /\ UNCHANGED taskVars
         ELSE pc' = "kycGetStackId" /\ tasks' = KYCTasks /\ taskIdx' = 1
    /\ UNCHANGED <<kycFrame, stackVars, retval, pages, outcome>>

\* conf.ts 896: await chooseEC2KeyPair(this.client)
kycKeyPair(ok) ==
    /\ pc = "kycKeyPair"
    /\ log' = Append(log, Event("chooseEC2KeyPair", "", IF ok THEN "ok" ELSE "failed"))
    /\ IF ok
         THEN pc' = "kycGetStackId" /\ tasks' = KYCTasks /\ taskIdx' = 1 /\ UNCHANGED outcome
         ELSE pc' = "done" /\ outcome' = Threw("ProviderError") /\ UNCHANGED taskVars
    /\ UNCHANGED <<kycFrame, stackVars, retval, pages>>

\* variant: the companion stack is always created
kycGetStackId_AlwaysCreate(ok, listing) ==
    /\ pc = "kycGetStackId"
    /\ pages' = <<listing>>
    /\ IF ~ok
         THEN /\ log' = Append(Append(log, Event("getStackId", KYCStackName, "failed")),
                               Event("task", tasks[taskIdx], "failed"))
              /\ pc' = "done" /\ outcome' = Threw("ProviderError")
              /\ UNCHANGED <<retval, stackOp>>
         ELSE /\ log' = Append(log, Event("getStackId", KYCStackName, stackIdOf(KYCStackName, listing)))
              /\ retval' = IF stackIdOf(KYCStackName, listing) # "undefined"
                              THEN Str(stackIdOf(KYCStackName, listing)) ELSE Undefined
              /\ stackOp' = "createStack"
              /\ pc' = "kycMutate"
              /\ UNCHANGED outcome
    /\ UNCHANGED <<kycFrame, stackErr, waiter, taskVars>>

\* conf.ts 926-942: the first task resolves the companion stack and calls
\* updateStack when it has an id, createStack when it has none
kycGetStackId(ok, listing) ==
    /\ pc = "kycGetStackId"
    /\ pages' = <<listing>>
    /\ IF ~ok
         THEN /\ log' = Append(Append(log, Event("getStackId", KYCStackName, "failed")),
                               Event("task", tasks[taskIdx], "failed"))
              /\ pc' = "done" /\ outcome' = Threw("ProviderError")
              /\ UNCHANGED <<retval, stackOp>>
         ELSE /\ log' = Append(log, Event("getStackId", KYCStackName, stackIdOf(KYCStackName, listing)))
              /\ retval' = IF stackIdOf(KYCStackName, listing) # "undefined"
                              THEN Str(stackIdOf(KYCStackName, listing)) ELSE Undefined
              /\ stackOp' = IF stackIdOf(KYCStackName, listing) # "undefined"
                               THEN "updateStack" ELSE "createStack"
              /\ pc' = "kycMutate"
              /\ UNCHANGED outcome
    /\ UNCHANGED <<kycFrame, stackErr, waiter, taskVars>>

\* conf.ts 944 and Listr.run: ctx.wait is what the mutation returned; its
\* failure fails the first task and ends the list
kycValidated ==
    /\ pc = "kycMutate"
    /\ stackOp \in {"returned", "threw"}
    /\ log' = Append(log, Event("task", tasks[taskIdx], IF stackOp = "returned" THEN "ok" ELSE "failed"))
    /\ IF stackOp = "returned"
         THEN pc' = "kycWait" /\ taskIdx' = taskIdx + 1 /\ UNCHANGED outcome
         ELSE pc' = "done" /\ outcome' = Threw(stackErr) /\ UNCHANGED taskIdx
    /\ UNCHANGED <<kycFrame, stackVars, retval, pages, tasks>>

\* conf.ts 946-949: the second task calls ctx.wait(), utils.ts 321-324, 329-332
kycWait(ok) ==
    /\ pc = "kycWait"
    /\ log' = log \o <<Event("wait", "5000", "ok"),
                       Event(waiter, conf.stackName, IF ok THEN "ok" ELSE "failed"),
                       Event("task", tasks[taskIdx], IF ok THEN "ok" ELSE "failed")>>
    /\ pc' = "done"
    /\ outcome' = IF ok THEN Returned ELSE Threw("ServerError")
    /\ UNCHANGED <<kycFrame, stackVars, retval, pages, taskVars>>

InitConf ==
    /\ conf \in Instances
    /\ pc = "idle"
    /\ log = <<>>
    /\ outcome = NoOutcome
    /\ buckets = <<>>
    /\ idx = 0
    /\ inflight = {}
    /\ stackOp = "idle"
    /\ stackErr = ""
    /\ waiter = ""
    /\ call = [functionName |-> "", noWarning |-> FALSE, local |-> "undefined",
               command |-> "deploy"]
    /\ caller = ""
    /\ response = NoResponse
    /\ envelope = NoValue
    /\ retval = NoValue
    /\ unwrapped = NoValue
    /\ deployOpts = NoDeployOpts
    /\ items = {}
    /\ pages = <<>>
    /\ listOp = NoListOp
    /\ reqToken = 0
    /\ sent = <<>>
    /\ acc = <<>>
    /\ existing = StackBuckets
    /\ target = ""
    /\ tasks = <<>>
    /\ taskIdx = 0
    /\ client = 0
    /\ clientLog = <<>>
    /\ nesting = [st \in Stacks |-> {}]
    /\ walker = ""
    /\ frontier = {}
    /\ fetched = {}
    /\ ctor = ""
    /\ request = NoRequest
    /\ shell = NoShell
    /\ input = NoInput
    /\ output = <<>>
    /\ region = ""
    /\ stackMsg = ""
    /\ pending = {}
    /\ reading = {}
    /\ confs = {}
    /\ updating = {}
    /\ cwd = HomeDir
    /\ thread = 0
    /\ locals = [p \in LocalCalls |-> NoLocal]
    /\ tmpCount = 0
    /\ settings = ConstructedSettings
    /\ answers = NoAnswers

NextDestroy ==
    \/ destroyStart
    \/ \E answer \in BOOLEAN : destroyConfirmDestroy(answer)
    \/ \E answer \in BOOLEAN : destroyConfirmMurder(answer)
    \/ \E ok \in BOOLEAN, list \in BucketLists : destroyListBuckets(ok, list)
    \/ \E answer \in BOOLEAN : destroyConfirmBuckets(answer)
    \/ destroyBucketLoop
    \/ \E b \in inflight, ok \in BOOLEAN : destroyBucketSettled(b, ok)
    \/ \E ok \in BOOLEAN : destroyDisableTerminationProtection(ok)
    \/ \E resp \in DeleteResponses : deleteStack(resp)
    \/ deleteStackBackoff
    \/ destroyDeleteStackEnded
    \/ \E ok \in BOOLEAN : destroyWaitForStackDelete(ok)

SpecDestroy == InitConf /\ [][NextDestroy]_vars

NextStack ==
    \/ \E op \in {"deleteStack", "createStack", "updateStack"} : callStackOp(op)
    \/ \E resp \in DeleteResponses : deleteStack(resp)
    \/ deleteStackBackoff
    \/ \E resp \in DeleteResponses : createStack(resp)
    \/ \E resp \in DeleteResponses : updateStack(resp)
    \/ invokeWaiter
    \/ \E ok \in BOOLEAN : waitFor(ok)

SpecStack == InitConf /\ [][NextStack]_vars

NextRetry ==
    \/ callStackOp("deleteStack")
    \/ \E resp \in DeleteResponses : deleteStack(resp)
    \/ deleteStackBackoff

\* the timer of the backoff fires, and the provider, asked again and again,
\* eventually answers with something other than the conflict
SpecRetry ==
    /\ InitConf
    /\ [][NextRetry]_vars
    /\ WF_vars(deleteStackBackoff)
    /\ SF_vars(\E resp \in DeleteResponses \ {CONFLICT} : deleteStack(resp))

LocalOutputs == {"", "{\"result\":1}"}

NextInvoke ==
    \/ \E opts \in InvokeOpts, who \in {"invoke", "invokeAndReturn"} : invokeCall(opts, who)
    \/ \E ok \in BOOLEAN : invokePromptFn(ok)
    \/ invokeDispatch
    \/ \E answer \in BOOLEAN : invokeConfirmRemote(answer)
    \/ \E resp \in LambdaResponses : invokeLambdaResponds(resp)
    \/ invokeLambdaRejects
    \/ \E code \in {0, 1}, res \in LocalOutputs, stderr \in {"", "boom"} :
          invokeLocal(code, res, stderr)
    \/ invokeAndReturn
    \/ unwrapEnvelope

SpecInvoke == InitConf /\ [][NextInvoke]_vars

\* deploy is followed through a success, a failure status and a function error
DeployResponses ==
    {resp \in LambdaResponses :
        /\ resp.Payload \in {"null", "{\"error\":{\"message\":\"partial\"},\"result\":1}"}
        /\ resp.StatusCode \in {200, 500}
        /\ resp.FunctionError = ""}

InitDeploy ==
    /\ InitConf
    /\ conf.nodeFlags = {}

NextDeploy ==
    \/ \E opts \in DeployOpts, hasModelFiles \in BOOLEAN : deploy(opts, hasModelFiles)
    \/ invokeDispatch
    \/ \E answer \in BOOLEAN : invokeConfirmRemote(answer)
    \/ \E resp \in DeployResponses : invokeLambdaResponds(resp)
    \/ invokeLambdaRejects
    \/ \E code \in {0, 1} : invokeLocal(code, "", "boom")
    \/ deployResume

SpecDeploy == InitDeploy /\ [][NextDeploy]_vars

InitExec ==
    /\ InitConf
    /\ conf.nodeFlags = {}

NextExec ==
    \/ \E opts \in ExecOpts : exec(opts)
    \/ invokeDispatch
    \/ \E answer \in BOOLEAN : invokeConfirmRemote(answer)
    \/ \E resp \in ExecResponses : invokeLambdaResponds(resp)
    \/ invokeLambdaRejects
    \/ \E code \in {0, 1}, res \in LocalOutputs : invokeLocal(code, res, "boom")
    \/ execResume

SpecExec == InitExec /\ [][NextExec]_vars

NextLoad ==
    \/ \E opts \in LoadOpts : load(opts)
    \/ \E opts \in LoadOpts, hasModelFiles \in BOOLEAN : deploy(opts, hasModelFiles)
    \/ invokeDispatch
    \/ \E answer \in BOOLEAN : invokeConfirmRemote(answer)
    \/ \E resp \in LoadResponses : invokeLambdaResponds(resp)
    \/ invokeLambdaRejects
    \/ \E code \in {0, 1} : invokeLocal(code, "", "boom")
    \/ deployResume
    \/ loadResume
    \/ \E prop \in {"models", "lenses"} : writeToFiles(prop)

SpecLoad == InitExec /\ [][NextLoad]_vars

\* the operations that check their arguments first
NextValidate ==
    \/ NextLoad
    \/ \E method \in ImportMethods, data \in ImportData : importDataUtilsMethod(method, data)
    \/ \E opts \in UpdateOpts : requestUpdate(opts)
    \/ requestUpdateResume

SpecValidate == InitExec /\ [][NextValidate]_vars

\* the list functions take the client of a remote instance that names its stack
InitList ==
    /\ InitConf
    /\ conf.remote
    /\ conf.stackName # ""
    /\ conf.project = ""
    /\ conf.nodeFlags = {}

NextList ==
    \/ \E filter \in ResourceFilters, pgs \in PagesOf(ResourceSummaries) :
          listCall("listStackResources", filter, pgs)
    \/ \E filter \in StackFilters, pgs \in PagesOf(StackSummaries) :
          listCall("listStacks", filter, pgs)
    \/ listStackResourcesPage
    \/ listStacksPage
    \/ listRejects

SpecList == InitList /\ [][NextList]_vars

NextBucket ==
    \/ \E b \in BucketNames : destroyBucketCall(b)
    \/ \E res \in {"ok", "AccessDenied", "NoSuchBucket"} : destroyBucketEmptied(res)
    \/ \E res \in {"ok", "AccessDenied", "NoSuchBucket"} : destroyBucketDeleted(res)

\* destroyBucket takes the s3 client of a remote instance
SpecBucket == InitList /\ [][NextBucket]_vars

\* the three operations that run a task list
NextTasks ==
    \/ NextDestroy
    \/ enableKYCServices
    \/ \E haveLocal, haveRemote, loadCurrentConf \in BOOLEAN, overwriteEnv \in Tri,
          stackName \in StackNames :
          init(haveLocal, haveRemote, overwriteEnv, stackName, loadCurrentConf)
    \/ \E ok \in BOOLEAN : initSaveEnv(ok)
    \/ \E ok \in BOOLEAN : listrTask(ok)

SpecTasks == InitConf /\ [][NextTasks]_vars

NextTyped ==
    \E pair \in HelperPairs, resources \in SeqsUpTo(TypedSummaries, MaxTypedLen) :
       listTyped(pair, resources)

SpecTyped == InitList /\ [][NextTyped]_vars

NextConstruct ==
    \/ \E opts \in ConfOpts : construct(opts)
    \/ \E opts \in InvokeOpts : invokeCall(opts, "invoke")
    \/ \E ok \in BOOLEAN : invokePromptFn(ok)
    \/ invokeDispatch

SpecConstruct == InitConf /\ [][NextConstruct]_vars

NextUnwrap ==
    \E ret \in Wrap(NestedValues(MaxNest - 1)) : unwrap(ret)

SpecUnwrap == InitList /\ [][NextUnwrap]_vars

NextNormalize ==
    \E opts \in ConfOpts : normalizeConfOpts(opts)

SpecNormalize == InitConf /\ [][NextNormalize]_vars

NextLocal ==
    \/ \E p \in LocalCalls, functionName \in {"setconf", "cli"} : invokeLocalEnter(p, functionName)
    \/ \E p \in LocalCalls, code \in {0, 1} : invokeLocalRun(p, code)

\* local invocations are made on an instance that targets a local project
InitLocal ==
    /\ InitConf
    /\ conf.local

SpecLocal == InitLocal /\ [][NextLocal]_vars

NextKYC ==
    \/ \E truefaceSpoof, rankOne \in BOOLEAN : kycStart(truefaceSpoof, rankOne)
    \/ \E ok \in BOOLEAN : kycPrivateConfBucket(ok)
    \/ \E answer \in BOOLEAN : kycConfirmServices(answer)
    \/ \E answer \in BOOLEAN : kycConfirmAccess(answer)
    \/ \E enableSSH \in BOOLEAN : kycConfirmSSH(enableSSH)
    \/ \E ok \in BOOLEAN : kycKeyPair(ok)
    \/ (pc = "kycGetStackId" /\
          \E ok \in BOOLEAN, listing \in SeqsUpTo(KYCSummaries, MaxStacks) :
             kycGetStackId(ok, listing))
    \/ \E resp \in DeleteResponses \ {CONFLICT} : createStack(resp)
    \/ \E resp \in DeleteResponses \ {CONFLICT} : updateStack(resp)
    \/ kycValidated
    \/ \E ok \in BOOLEAN : kycWait(ok)

\* enableKYCServices is called on an instance whose stack name is known
InitKYC ==
    /\ InitConf
    /\ conf.stackName # ""
    /\ conf.nodeFlags = {}

SpecKYC == InitKYC /\ [][NextKYC]_vars

\* operations on one instance, with init among them
NextClient ==
    \/ \E op \in ClientUsers : thisClient(op)
    \/ getStacks
    \/ waitForStackUpdate
    \/ waitForStackDelete
    \/ \E haveLocal, haveRemote, loadCurrentConf \in BOOLEAN, overwriteEnv \in Tri,
          stackName \in StackNames :
          init(haveLocal, haveRemote, overwriteEnv, stackName, loadCurrentConf)
    \/ \E ok \in BOOLEAN : initSaveEnv(ok)
    \/ \E ok \in BOOLEAN : listrTask(ok)

SpecClient == InitExec /\ [][NextClient]_vars

NextNames ==
    \/ \E stackName, functionName \in Names : expandName(stackName, functionName)
    \/ expandAgain

SpecNames == InitList /\ [][NextNames]_vars

NextServices ==
    \/ /\ pc = "idle"
       /\ \E org \in Orgs, stage \in Stages :
             servicesName(TdlPrefix \o org \o LtdInfix \o stage)
    \/ servicesNameAgain

SpecServices == InitList /\ [][NextServices]_vars

NextEnv ==
    \/ \E functions \in SUBSET Functions : updateEnvironments(functions)
    \/ \E FunctionName \in Functions, ok \in BOOLEAN :
          getFunctionConfigurationAnswers(FunctionName, ok)
    \/ \E FunctionName \in Functions, ok \in BOOLEAN :
          updateFunctionConfigurationAnswers(FunctionName, ok)

SpecEnv == InitList /\ [][NextEnv]_vars

NextTemplate ==
    \/ getStackTemplate
    \/ getTemplateRejects
    \/ \E body \in TemplateBodies, jsonParses, yamlLoads \in BOOLEAN :
          getTemplateAnswers(body, jsonParses, yamlLoads)

SpecTemplate == InitList /\ [][NextTemplate]_vars

NextStackId ==
    \E stackName \in LookupNames, listing \in SeqsUpTo(StatusSummaries, MaxStacks) :
       getStackId(stackName, listing)

SpecStackId == InitList /\ [][NextStackId]_vars

NextNest ==
    \/ \E fn \in {"getStackTemplates", "listRetainedResources"}, g \in Nestings : walkCall(fn, g)
    \/ \E st \in Stacks : getStackTemplates(st)
    \/ \E st \in Stacks : listRetainedResources(st)
    \/ walkRejects

\* every pending call is answered in the end
SpecNest == InitList /\ [][NextNest]_vars /\ WF_vars(NextNest)

----------------------------------------------------------------------------
(* Conf.destroy: confirmations and order *)

Destructive(e) ==
    e.ev \in {"destroyBucket", "disableStackTerminationProtection", "deleteStack"}

Accepted(i, which) == log[i] = Event("confirm", which, "ok")
Declined(e) == e.ev = "confirm" /\ e.res = "UserAborted"

\* C1: in destroy every destructive provider call (destroyBucket,
\* disableStackTerminationProtection, deleteStack) comes after the three
\* confirmations were accepted, in their order; once the user has declined a
\* confirmation destroy has aborted with UserAborted and no destructive call
\* follows the declined prompt.
C1_ConfirmedBeforeDestruction ==
    /\ \A i \in DOMAIN log :
         Destructive(log[i]) =>
           \E j1, j2, j3 \in 1..(i - 1) :
              /\ j1 < j2 /\ j2 < j3
              /\ Accepted(j1, "destroy")
              /\ Accepted(j2, "murder")
              /\ Accepted(j3, "buckets")
    /\ \A i \in DOMAIN log :
         Declined(log[i]) =>
           /\ pc = "done"
           /\ outcome = Threw("UserAborted")
           /\ \A j \in DOMAIN log : j > i => ~Destructive(log[j])
           /\ \A j \in DOMAIN log : j < i => ~Destructive(log[j])

\* destroy issued the stack delete after the user accepted all three prompts
C1_Witness ==
    /\ \E i \in DOMAIN log : log[i].ev = "deleteStack"
    /\ \E i \in DOMAIN log : log[i].ev = "destroyBucket"
    /\ Count(log, LAMBDA e : e.ev = "confirm" /\ e.res = "ok") = 3

BucketDone(k, i) == log[i] = Event("destroyBucket", buckets[k], "done")

\* C2: in destroy, when termination protection is disabled every bucket of the
\* stack has been destroyed and its destroy has finished; the stack delete is
\* issued only after termination protection was disabled; destroy returns only
\* with the wait for delete completion finished, as the last thing it did.  An
\* instance that targets the local environment, or whose remote targeting is
\* not established, fails with InvalidInput before any prompt or provider call.
C2_DestroyOrder ==
    /\ \A j \in DOMAIN log :
         log[j].ev = "disableStackTerminationProtection" =>
           /\ idx = Len(buckets)
           /\ inflight = {}
           /\ \A k \in 1..Len(buckets) : \E i \in 1..(j - 1) : BucketDone(k, i)
    /\ \A j \in DOMAIN log :
         log[j].ev = "deleteStack" =>
           \E i \in 1..(j - 1) :
              log[i] = Event("disableStackTerminationProtection", conf.stackName, "ok")
    /\ (pc = "done" /\ outcome = Returned) =>
           /\ Len(log) > 0
           /\ log[Len(log)] = Event("stackDeleteComplete", conf.stackName, "ok")
           /\ \E i \in DOMAIN log : log[i] = Event("deleteStack", conf.stackName, "ok")
           /\ \A k \in 1..Len(buckets) : \E i \in DOMAIN log : BucketDone(k, i)
    /\ (pc # "idle" /\ (conf.local \/ ~conf.remote)) =>
           /\ pc = "done"
           /\ outcome = Threw("InvalidInput")
           /\ log = <<>>

\* destroy ran to completion on a stack with at least two buckets
C2_Witness ==
    /\ pc = "done"
    /\ outcome = Returned
    /\ Len(buckets) >= 2

----------------------------------------------------------------------------
(* utils.deleteStack / createStack / updateStack: retry and propagation *)

Calls(op) == Count(log, LAMBDA e : e.ev = op)
Delays == Count(log, LAMBDA e : e.ev = "wait")

\* C7: when deleteStack returns after the provider answered the delete call
\* with the transient conflict exactly k times and then accepted it, the calls
\* it made are k conflicts, each followed by one wait of the fixed delay before
\* the next attempt, then the accepted call: k+1 delete calls, k delays; and
\* it returns a waiter.
C7_DeleteRetriesConflict ==
    (stackOp = "returned" /\ waiter = "stackDeleteComplete") =>
        LET k == Conflicts IN
        /\ Len(log) = 2 * k + 1
        /\ \A i \in 1..k :
             /\ log[2 * i - 1] = Event("deleteStack", conf.stackName, CONFLICT)
             /\ log[2 * i] = Event("wait", "5000", "ok")
        /\ log[2 * k + 1] = Event("deleteStack", conf.stackName, "ok")
        /\ Calls("deleteStack") = k + 1
        /\ Delays = k

\* deleteStack returned after exactly two conflicts
C7_Witness ==
    /\ stackOp = "returned"
    /\ waiter = "stackDeleteComplete"
    /\ Conflicts = 2

\* an answer of the provider that the operation does not retry
Propagated(e) ==
    \/ e.ev \in {"createStack", "updateStack"} /\ e.res # "ok"
    \/ e.ev = "deleteStack" /\ e.res \notin {"ok", CONFLICT}

\* C8: a provider error other than the delete-time conflict ends deleteStack,
\* createStack or updateStack at once: the failed call is the last thing the
\* operation did (no further attempt, no delay after it), the operation threw
\* the provider's own error and returned no waiter; with no conflict before
\* it the mutating call was attempted exactly once and no delay was observed.
C8_ErrorsPropagate ==
    \A i \in DOMAIN log :
       Propagated(log[i]) =>
         /\ i = Len(log)
         /\ stackOp = "threw"
         /\ stackErr = log[i].res
         /\ waiter = ""
         /\ Calls(log[i].ev) = Conflicts + 1
         /\ Delays = Conflicts
         /\ Conflicts = 0 => Len(log) = 1

\* each of the three operations failed on its first call
C8_Witness ==
    /\ stackOp = "threw"
    /\ Len(log) = 1
    /\ log[1].ev \in {"deleteStack", "createStack", "updateStack"}
    /\ log[1].res = "AccessDenied"

----------------------------------------------------------------------------
(* Conf.invoke and the envelope *)

\* C3: invoke never throws: every call of invoke that has ended returned an
\* envelope, an object holding error or result.
C3_InvokeNeverThrows ==
    (caller = "invoke" /\ pc = "done") =>
       /\ outcome = Returned
       /\ HasKey(retval, "error") \/ HasKey(retval, "result")

\* invoke was called without a function name and the prompt for one failed
C3_Witness ==
    /\ caller = "invoke"
    /\ pc = "done"
    /\ call.functionName = ""
    /\ log[Len(log)] = Event("promptFn", "which function?", "failed")

ExactlyOne(v) == HasKey(v, "error") # HasKey(v, "result")

\* C4: every envelope of the invocation layer, the one invoke returns and the
\* one unwrapReturnValue returns, carries exactly one of error and result.
C4_ExactlyOneOfErrorResult ==
    /\ (caller = "invoke" /\ outcome = Returned) => ExactlyOne(retval)
    /\ unwrapped # NoValue => ExactlyOne(unwrapped)

\* an envelope invoke returned was unwrapped
C4_Witness ==
    /\ caller = "invoke"
    /\ ExactlyOne(envelope)
    /\ unwrapped # NoValue

\* C5: once the endpoint has answered a remote invocation, the call is a
\* failure exactly when the response carries a function error or a status code
\* of 300 or more: then invoke returns {error} and invokeAndReturn throws;
\* otherwise invoke returns {result} with the parsed payload as result and
\* invokeAndReturn returns that value.
C5_FailureIffMarkerOrStatus ==
    response # NoResponse =>
       IF response.FunctionError # "" \/ response.StatusCode >= 300
         THEN /\ HasKey(envelope, "error") /\ ~HasKey(envelope, "result")
              /\ (caller = "invoke") => retval = envelope
              /\ (caller = "invokeAndReturn" /\ pc = "done") =>
                    outcome.kind = "threw" /\ retval = envelope.f.error
         ELSE /\ envelope = Obj([result |-> JSONParse(response.Payload)])
              /\ (caller = "invoke") => retval = envelope
              /\ (caller = "invokeAndReturn" /\ pc = "done") =>
                    outcome = Returned /\ retval = JSONParse(response.Payload)

\* a response with status 300 and no function error made invokeAndReturn throw
C5_Witness ==
    /\ response.StatusCode = 300
    /\ response.FunctionError = ""
    /\ caller = "invokeAndReturn"
    /\ pc = "done"
    /\ outcome.kind = "threw"

Issued(i) == log[i].ev = "lambda.invoke" /\ log[i].res = "issued"
AcceptedRemote(i) == log[i] = Event("confirm", "remote", "ok")
NeedsNoConfirmation ==
    call.noWarning \/ conf.remote \/ isSafeRemoteCommand(call.command)

\* C6: the remote endpoint is called only if the caller pre-approved the call
\* (noWarning), the instance is known to target the remote environment, the
\* command is on the safe list, or the user accepted the confirmation before
\* the call; when none of the first three holds and the user declined, the
\* endpoint is not called.
C6_RemoteCallNeedsApproval ==
    /\ \A i \in DOMAIN log :
          Issued(i) => NeedsNoConfirmation \/ \E j \in 1..(i - 1) : AcceptedRemote(j)
    /\ (~NeedsNoConfirmation
          /\ \E j \in DOMAIN log : log[j] = Event("confirm", "remote", "UserAborted"))
       => \A i \in DOMAIN log : ~Issued(i)

\* the endpoint was called only because the user accepted
C6_Witness ==
    /\ ~NeedsNoConfirmation
    /\ \E i \in DOMAIN log : Issued(i) /\ \E j \in 1..(i - 1) : AcceptedRemote(j)

----------------------------------------------------------------------------
(* Conf.deploy *)

NoneSelected(opts) == \A k \in DEPLOYABLES : ~Truthy(opts.flags[k])

\* C9: a deploy request that selects no deployable item and does not set all
\* fails with InvalidInput, and the set-configuration function is not invoked.
C9_NoSelectionFails ==
    (pc # "idle" /\ NoneSelected(deployOpts) /\ ~deployOpts.all) =>
       /\ pc = "done"
       /\ outcome = Threw("InvalidInput")
       /\ \A i \in DOMAIN log : log[i].ev # "lambda.invoke"

\* a request with no option at all reached the set-configuration function
C9_Witness ==
    /\ deployOpts = NoDeployOpts
    /\ \E i \in DOMAIN log : Issued(i) /\ log[i].arg = "setconf"

----------------------------------------------------------------------------
(* pagination *)

RECURSIVE Concat(_)
Concat(ps) == IF ps = <<>> THEN <<>> ELSE Head(ps) \o Concat(Tail(ps))

\* what a list function is to return: the items of all pages in page order that
\* pass the filter; listStacks gives each stack as its id and name
Listed ==
    LET all == Concat(pages)
        R(r) == AcceptResource(listOp.filter, r)
        S(st) == AcceptStack(listOp.filter, st)
    IN IF listOp.fn = "listStackResources"
         THEN SelectSeq(all, R)
         ELSE [i \in 1..Len(SelectSeq(all, S)) |-> StackInfo(SelectSeq(all, S)[i])]

\* C10: against a provider serving N >= 1 pages linked by tokens,
\* listStackResources and listStacks issue exactly N list calls, the first
\* without a token and each later one with the token the previous response
\* returned, go on while responses carry a token, and return the concatenation
\* of the pages' items in page order.
C10_PaginationComplete ==
    /\ (pc = "listing") => Len(sent) < Len(pages)
    /\ (pc = "done" /\ outcome = Returned /\ listOp # NoListOp) =>
          /\ Len(sent) = Len(pages)
          /\ sent[1] = 0
          /\ \A i \in 2..Len(sent) : sent[i] = i
          /\ reqToken = 0
          /\ acc = Listed
          /\ listOp.filter = "acceptAll" =>
                Len(acc) = Len(Concat(pages))

\* three pages holding four resources were listed in full
C10_Witness ==
    /\ pc = "done"
    /\ outcome = Returned
    /\ listOp = [fn |-> "listStackResources", filter |-> "acceptAll"]
    /\ Len(pages) = MaxPages
    /\ Len(acc) = 4
    /\ acc[1] # acc[2]

----------------------------------------------------------------------------
(* utils.destroyBucket *)

Ended(i) == log[i].ev = "destroyBucket" /\ log[i].res # "called"
ReportedAbsent(i) ==
    log[i].ev \in {"emptyBucket", "deleteBucket"} /\ log[i].res = "NoSuchBucket"

\* C11: a call of destroyBucket in which the emptying or the deleting of the
\* bucket reported that the bucket is absent returns with no error; so a
\* second call on a bucket already destroyed succeeds as the first did.
C11_AbsentBucketIsSuccess ==
    \A i \in DOMAIN log :
       (Ended(i) /\ ReportedAbsent(i - 1)) => log[i].res = "ok"

\* destroyBucket was called again on a bucket it had destroyed, and the
\* emptying reported the bucket absent
C11_Witness ==
    \E i, j \in DOMAIN log :
       /\ i < j
       /\ log[i] = Event("destroyBucket", target, "ok")
       /\ log[j] = Event("emptyBucket", target, "NoSuchBucket")
       /\ log[Len(log)] = Event("destroyBucket", target, "NoSuchBucket")

----------------------------------------------------------------------------
(* task lists *)

TaskAt(i) == log[i].ev = "task"
DisableFailed(i) == log[i].ev = "disableStackTerminationProtection" /\ log[i].res = "failed"

\* C12: a task list runs its tasks one after another in list order: the i-th
\* task started is the i-th of the list and starts only after the one before
\* it succeeded; a failed task is the last one started and its failure is
\* thrown to the caller.  In destroy, when disabling termination protection
\* fails, no stack delete is issued and destroy throws.
C12_TasksSequentialAbortOnFailure ==
    /\ \A i \in DOMAIN log :
          TaskAt(i) =>
            /\ i <= Len(tasks) /\ log[i].arg = tasks[i]
            /\ i > 1 => log[i - 1] = Event("task", tasks[i - 1], "ok")
            /\ log[i].res = "failed" =>
                 i = Len(log) /\ pc = "done" /\ outcome.kind = "threw"
    /\ (pc = "done" /\ tasks # <<>> /\ outcome = Returned) => Len(log) = Len(tasks)
    /\ \A i \in DOMAIN log :
          DisableFailed(i) =>
            /\ i = Len(log) /\ pc = "done" /\ outcome.kind = "threw"
            /\ \A j \in DOMAIN log : log[j].ev # "deleteStack"

\* the second of four tasks failed and the list stopped there
C12_Witness ==
    /\ Len(tasks) = 4
    /\ Len(log) = 2
    /\ log[2] = Event("task", "initializing local conf", "failed")
    /\ pc = "done"

----------------------------------------------------------------------------
(* the deferred completion waiter *)

Mutations == {"createStack", "updateStack", "deleteStack"}
WaitEvents == {"stackCreateComplete", "stackUpdateComplete", "stackDeleteComplete"}
WaiterOf(op) ==
    CASE op = "createStack" -> "stackCreateComplete"
      [] op = "updateStack" -> "stackUpdateComplete"
      [] op = "deleteStack" -> "stackDeleteComplete"

\* C13: createStack, updateStack and deleteStack return once the mutating
\* call is accepted, with no call of the provider's completion waiter made;
\* the completion waiter is called only by the returned callable (after its
\* delay), and it waits for the event of the accepted mutation (create ->
\* stackCreateComplete, update -> stackUpdateComplete, delete ->
\* stackDeleteComplete) on the stack the mutation named.
C13_FireThenAwait ==
    /\ stackOp = "returned" =>
          /\ \A i \in DOMAIN log : log[i].ev \notin WaitEvents
          /\ log[Len(log)].ev \in Mutations /\ log[Len(log)].res = "ok"
          /\ waiter = WaiterOf(log[Len(log)].ev)
    /\ \A i \in DOMAIN log :
          log[i].ev \in WaitEvents =>
            /\ i > 2
            /\ log[i - 1] = Event("wait", "5000", "ok")
            /\ log[i - 2].ev \in Mutations /\ log[i - 2].res = "ok"
            /\ log[i].ev = WaiterOf(log[i - 2].ev)
            /\ log[i].arg = log[i - 2].arg

\* the callable returned by updateStack was invoked and waited for the update
C13_Witness ==
    /\ stackOp = "waited"
    /\ log[1].ev = "updateStack"
    /\ log[Len(log)].ev = "stackUpdateComplete"
    /\ log[Len(log)].res = "ok"

----------------------------------------------------------------------------
(* recursion through nested stacks *)

\* C14: the recursive enumeration through nested stacks terminates whatever
\* the nesting, also when a nested stack refers back to an ancestor.
C14_TraversalTerminates == (pc = "walking") ~> (pc = "done")

\* the enumeration is about to visit the main stack again
C14_Witness ==
    /\ pc = "walking"
    /\ "root" \in frontier
    /\ "root" \in fetched

----------------------------------------------------------------------------
(* utils.getStackId *)

InProgress(status) ==
    Len(status) >= 2 /\ status[Len(status) - 1] = "IN" /\ status[Len(status)] = "PROGRESS"
DeleteRelated(status) == status[1] = "DELETE"
Listing == pages[1]

\* C15: getStackId returns the id of a stack only if that stack has the name
\* asked for and a status that ends with COMPLETE and does not start with
\* DELETE; the stack it resolves to is never in progress nor delete-related;
\* when no listed stack of that name has such a status it returns nothing.
C15_OnlyUpdateableStacks ==
    (pc = "done" /\ listOp.fn = "getStackId") =>
       /\ retval # Undefined =>
            \E i \in DOMAIN Listing :
               /\ retval = Str(Listing[i].StackId)
               /\ Listing[i].StackName = listOp.filter
               /\ Listing[i].StackStatus[Len(Listing[i].StackStatus)] = "COMPLETE"
               /\ ~DeleteRelated(Listing[i].StackStatus)
               /\ ~InProgress(Listing[i].StackStatus)
       /\ (\A i \in DOMAIN Listing :
              Listing[i].StackName = listOp.filter =>
                 \/ Listing[i].StackStatus[Len(Listing[i].StackStatus)] # "COMPLETE"
                 \/ DeleteRelated(Listing[i].StackStatus))
          => retval = Undefined

\* a deleted stack of the name comes first in the listing, an updated one
\* second, and the second one is returned
C15_Witness ==
    /\ pc = "done"
    /\ listOp = [fn |-> "getStackId", filter |-> "tdl-acme-ltd-dev"]
    /\ Len(Listing) = 2
    /\ Listing[1].StackName = "tdl-acme-ltd-dev"
    /\ Listing[1].StackStatus = <<"DELETE", "COMPLETE">>
    /\ retval = Str(Listing[2].StackId)

----------------------------------------------------------------------------
(* Conf.exec *)

ExecEnded == caller = "exec" /\ pc = "done"
OuterError == Get(envelope, "error")
InnerEnvelope == Get(envelope, "result")

\* exec raises on an error of the outer envelope, raises on an error of the
\* inner envelope, and returns the result of the inner envelope otherwise
ExecTwoLayers ==
    ExecEnded =>
       /\ JSTruthy(OuterError) => outcome.kind = "threw" /\ retval = normalizeError(OuterError)
       /\ (~JSTruthy(OuterError) /\ JSTruthy(Get(InnerEnvelope, "error"))) =>
             outcome.kind = "threw" /\ retval = normalizeError(Get(InnerEnvelope, "error"))
       /\ (/\ ~JSTruthy(OuterError)
           /\ ~NotDestructurable(InnerEnvelope)
           /\ ~JSTruthy(Get(InnerEnvelope, "error"))) =>
             outcome = Returned /\ retval = Get(InnerEnvelope, "result")

\* C16: Conf.exec unwraps two envelope layers: it raises when the envelope
\* invoke returned carries an error, raises when the envelope the remote
\* command returned carries an error, and returns the result of the inner
\* envelope otherwise; every value it raises is an error object.
C16_ExecUnwrapsAndNormalizes ==
    /\ ExecTwoLayers
    /\ (ExecEnded /\ outcome.kind = "threw") => retval.t = "Error"

\* the remote command answered an envelope whose error names a constructor of
\* the global object that builds no error, and exec raised what it built
C16_Witness ==
    /\ ExecEnded
    /\ outcome.kind = "threw"
    /\ ~JSTruthy(OuterError)
    /\ Get(Get(InnerEnvelope, "error"), "name") = Str("Date")

----------------------------------------------------------------------------
(* normalizeError *)

\* the error classes of the tool
Taxonomy == {"InvalidInput", "InvalidEnvironment", "ServerError", "NotFound", "UserAborted"}
\* the serialized error of the remote command that exec normalized
SerializedError == Get(InnerEnvelope, "error")
Kind == Get(SerializedError, "name")
NormalizedRemoteError ==
    ExecEnded /\ ~JSTruthy(OuterError) /\ JSTruthy(SerializedError)

\* C17: a serialized remote error is rebuilt as a typed error only through the
\* fixed taxonomy: an error whose kind is in the taxonomy is built by the
\* constructor of that kind, and a kind outside the taxonomy selects no
\* constructor (the value is built by the generic Error).
C17_KindLookupInTaxonomy ==
    NormalizedRemoteError =>
       IF Kind.t = "str" /\ Kind.s \in Taxonomy
         THEN ctor = Kind.s
         ELSE ctor = "Error"

\* a serialized NotFound came back built by the generic constructor
C17_Witness ==
    /\ NormalizedRemoteError
    /\ Kind = Str("NotFound")
    /\ ctor = "Error"
    /\ retval.name = "NotFound"

\* a kind outside the taxonomy selected a constructor of the global object
KindOutsideTaxonomySelects ==
    /\ NormalizedRemoteError
    /\ Kind = Str("TypeError")
    /\ ctor = "TypeError"

----------------------------------------------------------------------------
(* dry run of deploy and load *)

\* deploy or load was called with dryRun
DryRunCalled == pc # "idle" /\ deployOpts.dryRun

\* C18: in dry-run mode deploy and load return without side effects: the call
\* has ended at once, no remote or local invocation was issued, no prompt was
\* shown and no local configuration file was written.
C18_DryRunNoSideEffects ==
    DryRunCalled =>
       /\ pc = "done"
       /\ log = <<>>
       /\ call.functionName = ""
       /\ response = NoResponse
       /\ envelope = NoValue
       /\ outcome \in {Returned, Threw("InvalidInput")}

\* load was called with dryRun and with valid options, and returned
C18_Witness ==
    /\ DryRunCalled
    /\ caller = "load"
    /\ outcome = Returned
    /\ \E k \in DEPLOYABLES : normalizeDeployOpts(deployOpts)[k]

\* deploy was called with dryRun and with valid options, and returned
DeployDryRunReturned ==
    /\ DryRunCalled
    /\ caller = ""
    /\ outcome = Returned
    /\ items # {}

----------------------------------------------------------------------------
(* validation of the arguments *)

\* an operation was called with arguments that do not pass its validation
UnknownArguments == pc # "idle" /\ request.op = "" /\ deployOpts.args # 0
MissingProperty ==
    /\ request.op \in ImportMethods
    /\ \E prop \in ImportProps(request.op) : prop \notin request.data
MissingTag == request.op = "requestUpdate" /\ request.tag = ""

\* C19: validation of the arguments fails fast: deploy and load with unknown
\* positional arguments, createDataClaim and listDataClaims without a required
\* property, and requestUpdate without a tag raise InvalidInput, and nothing
\* was invoked, asked or sent to the provider.
C19_ValidationFailsFast ==
    (UnknownArguments \/ MissingProperty \/ MissingTag) =>
       /\ pc = "done"
       /\ outcome = Threw("InvalidInput")
       /\ log = <<>>
       /\ call.functionName = ""
       /\ response = NoResponse

\* requestUpdate was called without a tag on an instance that could have
\* reached the remote function
C19_Witness ==
    /\ MissingTag
    /\ ~conf.local
    /\ conf.stackName # ""
    /\ outcome = Threw("InvalidInput")

----------------------------------------------------------------------------
(* the client set *)

Invalidated(i, j) == \E k \in (i + 1)..(j - 1) : clientLog[k].ev = "invalidate"

\* C20: the client set of an instance is built lazily, at a use; across any
\* sequence of operations the same client set is used; a new client set is
\* built only after an invalidation.
C20_ClientSetReused ==
    /\ \A i \in DOMAIN clientLog :
          clientLog[i].ev = "construct" =>
             /\ i < Len(clientLog)
             /\ clientLog[i + 1] = ClientEvent("use", clientLog[i].id, clientLog[i].op)
    /\ \A i, j \in DOMAIN clientLog :
          (i < j /\ clientLog[i].ev = "use" /\ clientLog[j].ev = "use" /\ ~Invalidated(i, j)) =>
             clientLog[i].id = clientLog[j].id
    /\ \A i, j \in DOMAIN clientLog :
          (i < j /\ clientLog[i].ev = "construct" /\ clientLog[j].ev = "construct") =>
             Invalidated(i, j)

\* an operation used the cached client set, and getStacks then listed through
\* a set of its own, with no invalidation between the two
C20_Witness ==
    /\ Len(clientLog) >= 4
    /\ clientLog[1] = ClientEvent("construct", 1, "invoke")
    /\ clientLog[2] = ClientEvent("use", 1, "invoke")
    /\ clientLog[3] = ClientEvent("construct", 2, "getStacks")
    /\ clientLog[4] = ClientEvent("use", 2, "getStacks")
    /\ client = 1

----------------------------------------------------------------------------
(* Conf._invokeLocal *)

EmulatorRan == shell # NoShell

\* C21: a local invocation fails exactly when the emulator exits with a
\* non-zero status; the message of the failure is the captured error output,
\* or the content of the output file when the error output is empty; with
\* exit status zero the result is the parsed content of the output file.
C21_LocalFailureMessage ==
    EmulatorRan =>
       /\ HasKey(envelope, "error") <=> shell.code # 0
       /\ shell.code # 0 =>
             Get(envelope, "error").message =
                "invoke failed: " \o (IF shell.stderr # "" THEN shell.stderr ELSE shell.res)
       /\ shell.code = 0 =>
             Get(envelope, "result") = (IF shell.res = "" THEN Str("") ELSE JSONParse(shell.res))

\* the emulator failed having written both an output file and error output,
\* and the message holds the content of the output file
C21_Witness ==
    /\ EmulatorRan
    /\ shell.code # 0
    /\ shell.res # ""
    /\ shell.stderr # ""
    /\ Get(envelope, "error").message = "invoke failed: " \o shell.res

----------------------------------------------------------------------------
(* getLongFunctionName *)

Expanded == input.fn = "getLongFunctionName" /\ Len(output) >= 1

\* C22: the long name is <stackName>-<shortName> unless the name given begins
\* with the stack name, and then it is the name given; expanding a name that
\* was expanded gives the same name, whatever the stack name and the short
\* name.
C22_ExpandIdempotent ==
    Expanded =>
       /\ output[1] = IF OccursAt(input.name, input.stackName, 0)
                        THEN input.name
                        ELSE input.stackName \o <<"-">> \o input.name
       /\ Len(output) = 2 => output[2] = output[1]

\* a short name that holds the stack name was expanded, and expanded again
C22_Witness ==
    /\ Expanded
    /\ Len(output) = 2
    /\ ~OccursAt(input.name, input.stackName, 0)
    /\ \E i \in 1..Len(input.name) : OccursAt(input.name, input.stackName, i)
    /\ output[2] # output[1]

----------------------------------------------------------------------------
(* utils.waitFor *)

\* the provider's waiter has settled: the last event of the log is its answer
WaiterSettled ==
    /\ waiter # ""
    /\ stackOp \in {"waited", "threw"}
    /\ log # <<>>
    /\ log[Len(log)].ev = waiter

\* C23: waitFor returns only when the provider's waiter saw the terminal
\* event; when the provider's waiter fails, waitFor raises a ServerError, not
\* the provider's error, and its message holds the console address built from
\* the region of the client with the filter for failed stacks.
C23_WaitForRaisesServerError ==
    WaiterSettled =>
       /\ stackOp = "waited" <=> log[Len(log)].res = "ok"
       /\ log[Len(log)].res = "failed" =>
            /\ stackOp = "threw"
            /\ stackErr = "ServerError"
            /\ stackMsg = "operation may have failed. Check your stacks here: https://"
                  \o region \o ".console.aws.amazon.com/cloudformation/home?region="
                  \o region \o "#/stacks?filter=failed"

\* the waiter of an update failed for a client of the region eu-west-2
C23_Witness ==
    /\ WaiterSettled
    /\ waiter = "stackUpdateComplete"
    /\ region = "eu-west-2"
    /\ log[Len(log)].res = "failed"
    /\ stackErr = "ServerError"

----------------------------------------------------------------------------
(* deploy with all *)

\* deploy was called with all: true, no positional argument and no other option
DeployAllCalled ==
    /\ pc # "idle"
    /\ deployOpts.all
    /\ deployOpts.args = 0
    /\ \A k \in DEPLOYABLES : deployOpts.flags[k] = "undefined"

\* C24: a deploy request with all: true produces a deploy item set that holds
\* every deployable category, style, terms, bot and modelsPack, whatever the
\* local configuration directories hold.
C24_DeployAllHoldsEveryCategory ==
    DeployAllCalled => items = {"style", "terms", "bot", "modelsPack"}

\* deploy all was called where the models and lenses directories are empty,
\* and the item set has no modelsPack
C24_Witness ==
    /\ DeployAllCalled
    /\ items = {"style", "terms", "bot"}

----------------------------------------------------------------------------
(* getServicesStackName *)

ServicesNamed == input.fn = "getServicesStackName" /\ Len(output) >= 1
\* the <org> of tdl-<org>-ltd-<stage>, the stage being three letters
OrgOf(name) == SubSeq(name, 5, Len(name) - 8)

\* C25: for every stack name tdl-<org>-ltd-<stage>, getServicesStackName
\* returns a name of at most 20 characters that ends with -srvcs, keeps <org>
\* as it is when <org> has at most 14 characters, and returns the same name
\* when it is called again with the same stack name.
C25_ServicesStackName ==
    ServicesNamed =>
       /\ Len(output[1]) <= 20
       /\ Len(output[1]) >= 6
       /\ SubSeq(output[1], Len(output[1]) - 5, Len(output[1])) = <<"-", "s", "r", "v", "c", "s">>
       /\ Len(OrgOf(input.stackName)) <= 14 =>
             output[1] = OrgOf(input.stackName) \o <<"-", "s", "r", "v", "c", "s">>
       /\ Len(output) = 2 => output[2] = output[1]

\* the name was derived twice for an <org> of more than 14 characters
C25_Witness ==
    /\ ServicesNamed
    /\ Len(OrgOf(input.stackName)) > 14
    /\ Len(output) = 2
    /\ Len(output[1]) = 20
    /\ SubSeq(output[1], 1, 8) = SubSeq(OrgOf(input.stackName), 1, 8)

----------------------------------------------------------------------------
(* utils.getStackTemplate *)

\* the body of the template the provider answered with
TemplateAnswered ==
    /\ input.fn = "getStackTemplate"
    /\ pc = "done"
    /\ log # <<>>
    /\ log[1] = Event("getTemplate", conf.stackName, "ok")
\* the first character of the body that is no whitespace is the brace
BraceFirst(body) ==
    \E i \in DOMAIN body : body[i] = "{" /\ \A j \in 1..(i - 1) : body[j] = " "
ParserCalls == SubSeq(log, 2, Len(log))

\* C26: getStackTemplate chooses the parser from the trimmed body alone: a
\* body whose first character that is no whitespace is the brace goes to the
\* JSON parser and never to the YAML parser, every other body goes to the YAML
\* parser and never to the JSON parser, and what a parser rejects is raised,
\* not given to the other parser.
C26_ParserChosenByBody ==
    TemplateAnswered =>
       /\ Len(ParserCalls) = 1
       /\ ParserCalls[1].ev = (IF BraceFirst(input.name) THEN "JSON.parse" ELSE "YAML.safeLoad")
       /\ ParserCalls[1].res = "ok" <=> outcome = Returned
       /\ ParserCalls[1].res # "ok" => outcome = Threw(ParserCalls[1].res)

\* a body that begins with whitespace and then the brace was rejected by the
\* JSON parser, and the error was raised
C26_Witness ==
    /\ TemplateAnswered
    /\ input.name = <<" ", "{", "a">>
    /\ ParserCalls = <<Event("JSON.parse", "TemplateBody", "SyntaxError")>>
    /\ outcome = Threw("SyntaxError")

----------------------------------------------------------------------------
(* Conf.load and writeModels *)

LoadReturned == caller = "load" /\ pc = "done" /\ outcome = Returned

\* C27: a step's effects are complete before the next step begins: when load
\* returns, and so when the task that loads the remote configuration ends,
\* every model and lens file of the loaded pack has been written.
C27_LoadReturnsAfterWrites ==
    LoadReturned => pending = {}

\* load returned and the files of both directories are still to be written
C27_Witness ==
    /\ LoadReturned
    /\ pending = {"models", "lenses"}
    /\ log[Len(log)] = Event("write", "models", "started")

----------------------------------------------------------------------------
(* mutating provider calls in flight *)

MutatingCallsInFlight == Cardinality(inflight) + Cardinality(updating)

\* C28: writes are never parallelized: at no point are two mutating provider
\* calls (bucket destroy, function-configuration update) in flight at the
\* same time; updateEnvironments applies its updates one at a time.
C28_WritesNeverParallel ==
    MutatingCallsInFlight <= 1

\* updateEnvironments is waiting for its updates and more than one is in flight
C28_Witness ==
    /\ pc = "updating"
    /\ reading = {}
    /\ Cardinality(updating) >= 2
    /\ updating = confs

----------------------------------------------------------------------------
(* utils.deleteStack: the retry loop has no maximum *)

DeleteRunning == stackOp \in {"deleteStack", "backoff"}
DeleteEnded == stackOp \in {"returned", "threw"}
OnlyConflicts == \A i \in DOMAIN log : log[i].ev = "deleteStack" => log[i].res = CONFLICT

\* C29: deleteStack retries the conflict with no maximum attempt count: as
\* long as every answer of the provider was the conflict it has neither
\* returned nor thrown, however many conflicts there were; the first answer
\* other than the conflict ends it, with a waiter when the call was accepted
\* and with the provider's error otherwise; and when the provider eventually
\* answers with something other than the conflict it eventually terminates.
C29_DeleteRetriesWithoutMaximum ==
    /\ [](OnlyConflicts <=> ~DeleteEnded)
    /\ [](DeleteEnded =>
            /\ log[Len(log)].ev = "deleteStack"
            /\ IF log[Len(log)].res = "ok"
                 THEN stackOp = "returned" /\ waiter = "stackDeleteComplete"
                 ELSE stackOp = "threw" /\ stackErr = log[Len(log)].res /\ waiter = "")
    /\ (DeleteRunning ~> DeleteEnded)

\* every conflict the provider may answer with was retried, and the loop
\* then ended with the provider's error
C29_Witness ==
    /\ Conflicts = MaxConflicts
    /\ Delays = MaxConflicts
    /\ stackOp = "threw"
    /\ stackErr \in ProviderErrors

----------------------------------------------------------------------------
(* utils.destroyBucket: order of the two calls, and which errors it keeps *)

NotFoundCodes == {"ResourceNotFoundException", "NoSuchBucket"}
Answered(i) == log[i].ev \in {"emptyBucket", "deleteBucket"} /\ log[i].res # "issued"

\* C30: destroyBucket empties the bucket first and issues the delete only
\* after the emptying succeeded; an error it swallows is a not-found error
\* of the delete, and any other error of the emptying or of the delete is
\* thrown to the caller.
C30_EmptyThenDeleteKeepsErrors ==
    \A i \in DOMAIN log :
       /\ log[i] = Event("destroyBucket", log[i].arg, "called") /\ i < Len(log) =>
             log[i + 1].ev = "emptyBucket" /\ log[i + 1].arg = log[i].arg
       /\ log[i].ev = "deleteBucket" /\ log[i].res = "issued" =>
             log[i - 1] = Event("emptyBucket", log[i].arg, "ok")
       /\ Answered(i) /\ log[i].res \notin NotFoundCodes \cup {"ok"} =>
             /\ i + 1 = Len(log) => outcome = Threw(log[i].res)
             /\ log[i + 1] = Event("destroyBucket", log[i].arg, log[i].res)
       /\ Ended(i) /\ log[i].res = "ok" =>
             /\ log[i - 1].ev = "deleteBucket"
             /\ log[i - 1].res \in NotFoundCodes \cup {"ok"}
             /\ \E j \in 1..(i - 1) : log[j] = Event("emptyBucket", log[i].arg, "ok")

\* the emptying succeeded, the delete was refused for another reason than
\* absence, and destroyBucket threw that error
C30_Witness ==
    /\ Len(log) >= 5
    /\ log[Len(log) - 3] = Event("emptyBucket", target, "ok")
    /\ log[Len(log) - 1] = Event("deleteBucket", target, "AccessDenied")
    /\ log[Len(log)] = Event("destroyBucket", target, "AccessDenied")
    /\ outcome = Threw("AccessDenied")

----------------------------------------------------------------------------
(* deploy: the item set handed to setconf *)

SetconfInvoked == caller = "deploy" /\ pc \notin {"idle", "done"} /\ call.functionName = "setconf"

\* C31: the deploy item set handed to the remote set-configuration operation
\* holds at least one item: when the assembled set is empty, deploy fails
\* instead of invoking the operation.
C31_DeployItemsNotEmpty ==
    SetconfInvoked => items # {}

\* only models was asked for, there are no model or lens files, and setconf
\* is being invoked with no item
C31_Witness ==
    /\ SetconfInvoked
    /\ pc = "dispatch"
    /\ deployOpts.flags["models"] = "true"
    /\ \A k \in DEPLOYABLES \ {"models"} : deployOpts.flags[k] = "undefined"
    /\ ~deployOpts.all
    /\ items = {}

----------------------------------------------------------------------------
(* enableKYCServices: create or update, then wait *)

KYCCalled == \E i \in DOMAIN log : log[i].ev = "enableKYCServices"
MutationAt(i) == log[i].ev \in {"createStack", "updateStack"}
WaitAt(i) == log[i].ev \in {"wait", "stackCreateComplete", "stackUpdateComplete"}
ResolvedAt(i) == log[i].ev = "getStackId" /\ log[i].res # "failed"
\* the companion stack exists and can be updated, by the listing getStackId read
CompanionUpdateable ==
    \E k \in DOMAIN pages[1] :
       /\ pages[1][k].StackName = KYCStackName
       /\ isUpdateableStatus(pages[1][k].StackStatus)

----------------------------------------------------------------------------
(* _invoke: the stack name guard *)

EndpointCalled == \E i \in DOMAIN log : log[i].ev = "lambda.invoke"

\* C33: no remote compute call is issued while the stack name of the
\* instance is unknown: whatever the construction of the instance, a remote
\* invocation with an absent stack name fails before the endpoint is called.
C33_NoRemoteCallWithoutStackName ==
    EndpointCalled => conf.stackName # ""

\* an instance built with a project and neither local nor remote, with no
\* stack name, has called the endpoint
C33_Witness ==
    /\ EndpointCalled
    /\ conf.stackName = ""
    /\ ~conf.remote /\ ~conf.local
    /\ conf.project # ""
    /\ log[Len(log)] = Event("lambda.invoke", call.functionName, "issued")

----------------------------------------------------------------------------
(* _invokeLocal: the working directory and the temporary files *)

Started(p) == locals[p].at # "pending"
Ended34(p) == locals[p].at \in {"returned", "threw"}
TmpFiles(p) == {locals[p].tmpInput, locals[p].tmpOutput}

\* C34: a local invocation runs from the change into the project directory
\* to the change back without a suspension point: two invocations started
\* in one session never interleave, each has its own fresh pair of temporary
\* files, and after every invocation, returned or failed by a non-zero exit,
\* the working directory is what it was before the call.
C34_LocalInvocationsDoNotInterleave ==
    /\ Cardinality({p \in LocalCalls : locals[p].at = "inProject"}) <= 1
    /\ \A p \in LocalCalls :
          Started(p) =>
            /\ Cardinality(TmpFiles(p)) = 2
            /\ \A q \in LocalCalls \ {p} : Started(q) => TmpFiles(p) \cap TmpFiles(q) = {}
    /\ thread = 0 => \A p \in LocalCalls : Started(p) => (Ended34(p) /\ cwd = locals[p].pwd)

\* two invocations ran one after the other, one failed by a non-zero exit,
\* and the working directory is the one both were started in
C34_Witness ==
    /\ \A p \in LocalCalls : Ended34(p)
    /\ \E p \in LocalCalls : locals[p].code = 1
    /\ \E p \in LocalCalls : locals[p].code = 0
    /\ \A p \in LocalCalls : cwd = locals[p].pwd /\ cwd # conf.project

----------------------------------------------------------------------------
(* normalizeConfOpts *)

Normalized == request.op = "normalizeConfOpts" /\ pc = "done"

\* C35: normalizeConfOpts either raises InvalidInput or returns options in
\* which exactly one of local and remote is true; and whenever it returns
\* local = true, a project path was supplied and validated as a project
\* directory, also when the caller passed remote = false without a project.
C35_NormalizedLocalHasProject ==
    Normalized =>
      \/ outcome = Threw("InvalidInput")
      \/ /\ outcome = Returned
         /\ output[1].local # output[1].remote
         /\ output[1].local =>
               request.data.project # "" /\ isValidProjectPath(request.data.project)

\* remote = false was passed without a project, and the options returned
\* have local = true
C35_Witness ==
    /\ Normalized
    /\ outcome = Returned
    /\ request.data.remote = "false"
    /\ ~request.data.local
    /\ request.data.project = ""
    /\ output[1].local /\ ~output[1].remote

----------------------------------------------------------------------------
(* the typed list helpers and their Ids helpers *)

TypedCalled == request.op \in HelperPairs /\ pc = "done"
\* the resource type the provider gives the resources a pair is about
TypeOfPair(pair) ==
    CASE pair = "Buckets" -> "AWS::S3::Bucket"
      [] pair = "Functions" -> "AWS::Lambda::Function"
      [] pair = "Tables" -> "AWS::DynamoDB::Table"
      [] pair = "Substacks" -> "AWS::CloudFormation::Stack"
OfType(type, resources) == LET T(r) == r.ResourceType = type IN SelectSeq(resources, T)

\* C36: for every helper pair and every stack, the Ids helper returns the
\* physical ids of the resources the list helper returns, in the same order,
\* and the list helper returns the stack's resources of that type in
\* listing order.
C36_IdsHelperMatchesListHelper ==
    TypedCalled =>
      /\ output[2] = [i \in 1..Len(output[1]) |-> output[1][i].PhysicalResourceId]
      /\ output[1] = OfType(TypeOfPair(request.op), request.data)

\* the stack holds a table: listStackTableIds returned its id and
\* listStackTables returned nothing
C36_Witness ==
    /\ TypedCalled
    /\ request.op = "Tables"
    /\ Len(request.data) = 2
    /\ output[1] = <<>>
    /\ output[2] = <<"tdl-acme-ltd-dev-bucket-0">>

----------------------------------------------------------------------------
(* unwrapReturnValue *)

UnwrapCalled == request.op = "unwrapReturnValue" /\ pc = "done"
IsEnvelope(v) == HasKey(v, "error") \/ HasKey(v, "result")
UnwrapIdempotent == UnwrapCalled => output[2] = output[1]

\* C37: unwrapReturnValue is idempotent, and its output never has a result
\* that is itself an envelope carrying error or result, also when the inner
\* result is a falsy value such as 0, null or the empty string.
C37_UnwrapFlattensEveryEnvelope ==
    UnwrapCalled =>
      /\ output[2] = output[1]
      /\ ~IsEnvelope(Get(output[1], "result"))

\* an envelope around an envelope whose result is 0 came back as it went in
C37_Witness ==
    /\ UnwrapCalled
    /\ request.data = Obj([result |-> Obj([result |-> Num(0)])])
    /\ output[1] = request.data

----------------------------------------------------------------------------
(* the constructor of Conf and the target of invoke *)

Constructed == request.op = "new Conf"
\* invoke has chosen between _invokeLocal and _invoke
TargetChosen ==
    /\ caller = "invoke"
    /\ \/ pc \in {"invokeLocal", "confirmRemote", "lambda"}
       \/ pc = "done" /\ envelope # NoValue
PerCallLocal == IF call.local = "undefined" THEN conf.local ELSE call.local = "true"

\* C38: constructing a Conf with both local and remote set, with local set
\* but no valid project, or with remote set together with node debugging
\* flags raises InvalidInput; every instance constructed has never local and
\* remote both true, and has remote true whenever no project was given.  The
\* invoke target is local exactly when the per-call local option, defaulting
\* to the instance's local flag, is truthy.
C38_ConstructorAndInvokeTarget ==
    /\ Constructed =>
          LET o == request.data
              rejected == pc = "done" /\ outcome = Threw("InvalidInput") /\ caller = ""
          IN /\ (o.local /\ o.remote = "true") => rejected
             /\ (o.local /\ o.project # "valid") => rejected
             /\ (o.remote = "true" /\ o.nodeFlags # {}) => rejected
             /\ ~rejected =>
                   /\ conf.local = o.local /\ conf.project = o.project
                   /\ ~(conf.local /\ conf.remote)
                   /\ o.project = "" => conf.remote
    /\ ~(conf.local /\ conf.remote)
    /\ conf.project = "" => conf.remote
    /\ TargetChosen => (pc = "invokeLocal" <=> PerCallLocal)

\* an instance was constructed as remote, and an invoke with local: true on
\* it goes to the local target
C38_Witness ==
    /\ Constructed
    /\ request.data.remote = "true"
    /\ conf.remote /\ ~conf.local
    /\ call.local = "true"
    /\ pc = "invokeLocal"

----------------------------------------------------------------------------
(* Conf.init: the answers that end it at once *)

InitDeclined ==
    /\ answers.asked
    /\ answers.overwriteEnv = "false" \/ ~(answers.haveLocal \/ answers.haveRemote)
SavedEnv(i) ==
    \/ log[i].ev = "saveEnv"
    \/ log[i].ev = "task" /\ log[i].arg = "saving .env"

\* C39: when the user answers the init prompts with overwriteEnv = false, or
\* with neither a local nor a remote environment, init returns leaving the
\* instance's region, profile, stack name, stack id, remote flag and cached
\* client unchanged, and writes no .env file and creates no directory.
C39_DeclinedInitChangesNothing ==
    /\ [][(~answers.asked /\ InitDeclined') =>
            /\ pc' = "done" /\ outcome' = Returned
            /\ conf' = conf
            /\ settings' = settings
            /\ client' = client /\ clientLog' = clientLog
            /\ log' = log /\ tasks' = tasks]_vars
    /\ [](InitDeclined =>
            /\ pc = "done"
            /\ tasks = <<>>
            /\ \A i \in DOMAIN log : ~SavedEnv(i)
            /\ settings = ConstructedSettings)

\* a client set was cached, then init was answered overwriteEnv = false although
\* there is a remote deployment, and the client set is still cached
C39_Witness ==
    /\ InitDeclined
    /\ answers.overwriteEnv = "false" /\ answers.haveRemote
    /\ pc = "done"
    /\ client = 1
    /\ clientLog[Len(clientLog)].ev = "use"

====
